---- MODULE Spec2Model ----
(***************************************************************************)
(* ripmedia: the web host's DownloadManager and EventBroker                *)
(* (src/ripmedia/webhost.py) and the download pipeline                     *)
(* (src/ripmedia/pipeline.py), as a state machine.                         *)
(*                                                                         *)
(* Threads are HTTP request threads running DownloadManager.enqueue, the   *)
(* threads of the ThreadPoolExecutor running DownloadManager._run, and the *)
(* /events handler threads, one per subscriber queue.  Every thread takes  *)
(* one atomic step per lock section or per call on a shared object.        *)
(***************************************************************************)
EXTENDS Integers, Sequences, FiniteSets, TLC

\* ----- bounds of the model ------------------------------------------------
MaxItems == 2        \* URLs accepted over the whole run
MaxParallel == 2     \* largest configured `parallel`
MaxCallbacks == 2    \* callbacks an unconstrained run_download may make
ClaimedCapacity == 3 \* the per-subscriber capacity claim C6 speaks of

\* ----- program constants --------------------------------------------------
QueueMaxsize == 0    \* queue.Queue() : maxsize 0 means "no limit"

Batch == <<"u1", "u2", "u3">>
Requests == {"r1", "r2"}
Subscribers == {"s1", "s2"}
None == "None"

Max(a, b) == IF a >= b THEN a ELSE b
Min(a, b) == IF a <= b THEN a ELSE b

\* str(n) for n >= 0: the decimal digits, most significant first
RECURSIVE Str(_)
Str(n) == IF n < 10 THEN <<n>> ELSE Str(n \div 10) \o <<n % 10>>

\* the number a digit string denotes (used by the properties only)
RECURSIVE Num(_)
Num(s) == IF s = <<>> THEN 0 ELSE 10 * Num(SubSeq(s, 1, Len(s) - 1)) + s[Len(s)]

ReqThreads == {<<"request", r>> : r \in Requests}
PoolThreads == {<<"pool", k>> : k \in 1..Max(1, MaxParallel)}
Threads == ReqThreads \cup PoolThreads

\* ThreadPoolExecutor(max_workers=max(1, parallel))
MaxWorkersUnclamped(p) == p + 1
MaxWorkers(p) == Max(1, p)

VARIABLES
  parallel,     \* the `parallel` argument of DownloadManager
  env,          \* who uses this web host: request threads, observers, load
  files,        \* the output directory: path -> the download saved there
  closed,       \* ThreadPoolExecutor._shutdown of DownloadManager._executor
  id_counter,   \* the value the next next(self._id_counter) returns
  items,        \* DownloadManager._items : id -> ItemState
  work,         \* the executor's work queue of submitted (_run, item_id, url)
  subscribers,  \* EventBroker._subscribers (by queue name)
  queues,       \* the content of every subscriber queue
  pc,           \* where each request / pool thread is
  pmsg,         \* publish(): the message being published by a thread
  ptargets,     \* publish(): the snapshot `subscribers` still to be served
  pret,         \* where the thread continues after publish() returns
  rq,           \* enqueue() locals of each request thread
  wk,           \* _run() locals of each pool thread
  sse,          \* state of each /events handler
  lastGot,      \* history: per subscriber and item, the last message read
  npub,         \* history: per item, the number of messages published
  emptyPub      \* history: some publish found no subscriber at all

vars == <<parallel, env, files, closed, id_counter, items, work, subscribers,
          queues, pc, pmsg, ptargets, pret, rq, wk, sse, lastGot, npub, emptyPub>>

\* ----- ItemState ------------------------------------------------------------
EmptySteps == [l \in {} |-> None]

ItemState(id, url) ==
  [id |-> id, url |-> url, status |-> "queued", title |-> None,
   current |-> None, progress |-> None, steps |-> EmptySteps,
   paths |-> <<>>, error |-> None]

\* ----- EventBroker ----------------------------------------------------------
Full(q) == QueueMaxsize > 0 /\ Len(q) >= QueueMaxsize

\* q.put_nowait(message) inside try/except: a full queue drops the message
PutNowaitLifo(q, m) == IF Full(q) THEN q ELSE <<m>> \o q
PutNowaitBounded(q, m) == IF Len(q) >= 1 THEN q ELSE Append(q, m)
PutNowait(q, m) == IF Full(q) THEN q ELSE Append(q, m)

\* no message yet
NoMessage == [type |-> None, id |-> <<>>, label |-> None, n |-> 0]

\* the payload; n numbers the messages about one item in publishing order
Message(type, id, label) ==
  [type |-> type, id |-> id, label |-> label,
   n |-> IF id \in DOMAIN npub THEN npub[id] + 1 ELSE 1]

\* the caller builds the payload and enters publish()
StartPublish(th, type, id, label, ret) ==
  /\ pmsg' = [pmsg EXCEPT ![th] = Message(type, id, label)]
  /\ npub' = [k \in DOMAIN npub \cup {id} |->
                IF k = id THEN Message(type, id, label).n ELSE npub[k]]
  /\ pret' = [pret EXCEPT ![th] = ret]
  /\ pc' = [pc EXCEPT ![th] = "publish"]

\* with self._lock: subscribers = list(self._subscribers)
PublishSnapshot(th) ==
  /\ pc[th] = "publish"
  /\ ptargets' = [ptargets EXCEPT ![th] = subscribers]
  /\ pc' = [pc EXCEPT ![th] = IF subscribers = {} THEN pret[th] ELSE "put"]
  /\ emptyPub' = (emptyPub \/ subscribers = {})
  /\ UNCHANGED <<parallel, env, files, closed, id_counter, items, work, subscribers, queues,
                 pmsg, pret, rq, wk, sse, lastGot, npub>>

\* one turn of `for q in subscribers: q.put_nowait(message)`
PublishPut(th) ==
  /\ pc[th] = "put"
  /\ \E q \in ptargets[th] :
       /\ queues' = [queues EXCEPT ![q] = PutNowait(queues[q], pmsg[th])]
       /\ ptargets' = [ptargets EXCEPT ![th] = ptargets[th] \ {q}]
       /\ pc' = [pc EXCEPT ![th] = IF ptargets[th] = {q} THEN pret[th] ELSE "put"]
  /\ UNCHANGED <<parallel, env, files, closed, id_counter, items, work, subscribers, pmsg, pret,
                 rq, wk, sse, lastGot, npub, emptyPub>>

\* /events: q = broker.subscribe()
Subscribe(s) ==
  /\ sse[s] = "idle"
  /\ s \in env.observers
  /\ subscribers' = subscribers \cup {s}
  /\ sse' = [sse EXCEPT ![s] = "attached"]
  /\ UNCHANGED <<parallel, env, files, closed, id_counter, items, work, queues, pc, pmsg,
                 ptargets, pret, rq, wk, lastGot, npub, emptyPub>>

\* /events: message = q.get(timeout=10), written to the client
SseGet(s) ==
  /\ sse[s] = "attached"
  /\ queues[s] # <<>>
  /\ LET m == Head(queues[s]) IN
       lastGot' = [lastGot EXCEPT ![s] =
                     [k \in DOMAIN lastGot[s] \cup {m.id} |->
                        IF k = m.id THEN m.n ELSE lastGot[s][k]]]
  /\ queues' = [queues EXCEPT ![s] = Tail(queues[s])]
  /\ UNCHANGED <<parallel, env, files, closed, id_counter, items, work, subscribers, pc, pmsg,
                 ptargets, pret, rq, wk, sse, npub, emptyPub>>

\* /events: the write fails (client gone); finally: broker.unsubscribe(q).
\* The handler returns: what its queue held is read by nobody any more.
SseDisconnect(s) ==
  /\ sse[s] = "attached"
  /\ subscribers' = subscribers \ {s}
  /\ sse' = [sse EXCEPT ![s] = "closed"]
  /\ queues' = [queues EXCEPT ![s] = <<>>]
  /\ lastGot' = [lastGot EXCEPT ![s] = [k \in {} |-> 0]]
  /\ UNCHANGED <<parallel, env, files, closed, id_counter, items, work, pc, pmsg, ptargets,
                 pret, rq, wk, npub, emptyPub>>

\* ----- DownloadManager.enqueue ----------------------------------------------
\* `late` notes that shutdown() had been called when enqueue was entered;
\* `queued` is the count the HTTP response reports, once it is written
NoRequest ==
  [urls |-> <<>>, k |-> 0, item_id |-> <<>>, items |-> <<>>, ret |-> <<>>,
   late |-> FALSE, queued |-> 0]

RECURSIVE Accepted(_)
Accepted(S) ==
  IF S = {} THEN 0
  ELSE LET t == CHOOSE x \in S : TRUE IN Len(rq[t].urls) + Accepted(S \ {t})

\* the URL lists a request may carry
UrlLists == {SubSeq(Batch, 1, b) : b \in 0..Len(Batch)}

\* next(self._id_counter) on itertools.count(1): one indivisible call
CountNextStuck(c) == c
CountNext(c) == c + 1

\* POST /enqueue: manager.enqueue(urls) is entered
EnqueueCall(t, urls) ==
  /\ pc[t] = "idle"
  /\ t[2] \in env.requests
  /\ Accepted(ReqThreads) + Len(urls) <= Min(env.urls, MaxItems)
  /\ rq' = [rq EXCEPT ![t] = [NoRequest EXCEPT !.urls = urls, !.late = closed]]
  /\ pc' = [pc EXCEPT ![t] = IF urls = <<>> THEN "return" ELSE "next_id"]
  /\ UNCHANGED <<parallel, env, files, closed, id_counter, items, work, subscribers, queues,
                 pmsg, ptargets, pret, wk, sse, lastGot, npub, emptyPub>>

\* item_id = str(next(self._id_counter))
EnqueueNextId(t) ==
  /\ pc[t] = "next_id"
  /\ rq' = [rq EXCEPT ![t].item_id = Str(id_counter), ![t].k = @ + 1]
  /\ id_counter' = CountNext(id_counter)
  /\ pc' = [pc EXCEPT ![t] = "insert"]
  /\ UNCHANGED <<parallel, env, files, closed, items, work, subscribers, queues, pmsg, ptargets,
                 pret, wk, sse, lastGot, npub, emptyPub>>

\* state = ItemState(...); self._items[item_id] = state; items.append(state);
\* the "queued" payload is built and publish() entered
EnqueueInsert(t) ==
  /\ pc[t] = "insert"
  /\ LET id == rq[t].item_id IN
       /\ items' = [k \in DOMAIN items \cup {id} |->
                      IF k = id THEN ItemState(id, rq[t].urls[rq[t].k]) ELSE items[k]]
       /\ rq' = [rq EXCEPT ![t].items = Append(@, id)]
       /\ StartPublish(t, "queued", id, None, "submit")
  /\ UNCHANGED <<parallel, env, files, closed, id_counter, work, subscribers, queues, ptargets,
                 wk, sse, lastGot, emptyPub>>

\* self._executor.submit(self._run, item_id, url)
SubmitTwice(w, id, url) ==
  w \o <<[item_id |-> id, url |-> url], [item_id |-> id, url |-> url]>>
Submit(w, id, url) == Append(w, [item_id |-> id, url |-> url])

\* after shutdown() submit raises RuntimeError, which leaves enqueue
EnqueueSubmit(t) ==
  /\ pc[t] = "submit"
  /\ work' = IF closed THEN work ELSE Submit(work, rq[t].item_id, rq[t].urls[rq[t].k])
  /\ pc' = [pc EXCEPT ![t] = IF closed THEN "raised"
                             ELSE IF rq[t].k < Len(rq[t].urls) THEN "next_id"
                             ELSE "return"]
  /\ UNCHANGED <<parallel, env, files, closed, id_counter, items, subscribers, queues, pmsg,
                 ptargets, pret, rq, wk, sse, lastGot, npub, emptyPub>>

\* return items: the caller holds the ItemState objects and reads their status
EnqueueReturn(t) ==
  /\ pc[t] = "return"
  /\ rq' = [rq EXCEPT ![t].ret =
              [i \in 1..Len(rq[t].items) |-> items[rq[t].items[i]].status]]
  /\ pc' = [pc EXCEPT ![t] = "returned"]
  /\ UNCHANGED <<parallel, env, files, closed, id_counter, items, work, subscribers, queues,
                 pmsg, ptargets, pret, wk, sse, lastGot, npub, emptyPub>>

\* ----- DownloadManager._run and the callbacks it hands to run_download ------
NoResult ==
  [kind |-> "none", paths |-> <<>>, message |-> None, stage |-> None, failures |-> <<>>]

\* a NormalizedItem, as far as the pipeline branches on it
Item(provider, kind, url, entries) ==
  [provider |-> provider, kind |-> kind, url |-> url, entries |-> entries]
NoItem == Item(None, None, None, <<>>)

\* the locals of run_download, _run_collection and _run_single; `events` is
\* the history of the StepResults handed to step_callback for the current
\* (sub-)item and `entered` the stages it has begun
\* the frame of resolve_candidates / _resolve_candidates_from_search: the
\* arguments, the search queries still to run, the hits collected, the number
\* of extract_info calls made, and the list returned or the error raised
NoResolve ==
  [at |-> "off", fn |-> None, item_provider |-> None, title |-> None, isrc |-> FALSE,
   preferred |-> None, provider |-> None, limit |-> 0, queries |-> 0,
   entries |-> <<>>, searches |-> 0, out |-> <<>>, error |-> NoResult]

\* the frame of _score_candidate calls on one (item, candidate) pair: the
\* pair, if there is one, and the values returned so far
NoScore == [pairs |-> <<>>, scores |-> <<>>]

\* the frame of download_with_ytdlp calls of one worker: the planned stem,
\* final_path, the paths that existed when it was chosen, the number of calls
\* ended and the paths the worker has saved to
NoSave ==
  [at |-> "off", stem |-> None, final_path |-> <<>>, seen |-> {}, n |-> 0,
   saved |-> <<>>]

NoPipe ==
  [rs |-> NoResolve, sc |-> NoScore, sv |-> NoSave, at |-> "off", item |-> NoItem, cur |-> NoItem, in_collection |-> FALSE,
   todo |-> <<>>, saved |-> <<>>, failures |-> <<>>,
   download_steps_started |-> {}, download_steps_done |-> {},
   postprocess_steps_started |-> {}, postprocess_steps_done |-> {},
   hooks |-> 0, gap |-> 0, quiet |-> 0, sep |-> 0, suffix |-> None, candidates |-> <<>>,
   download_url |-> None, raw |-> None, events |-> <<>>, entered |-> {}]

NoWork == [item_id |-> <<>>, url |-> None, calls |-> <<>>, used |-> 0,
           result |-> NoResult, pl |-> NoPipe]

Call(cb, label, ok, detail) == [cb |-> cb, label |-> label, ok |-> ok, detail |-> detail]

Index(w) == w[2]

\* a pool thread takes the next work item and enters _run: the Ui is built and
\* self._record_status(item_id, "Starting") is the first call
RunStart(w) ==
  /\ pc[w] = "idle"
  /\ Index(w) <= MaxWorkers(parallel)
  /\ work # <<>>
  /\ wk' = [wk EXCEPT ![w] = [NoWork EXCEPT !.item_id = Head(work).item_id,
                                            !.url = Head(work).url,
                                            !.calls = <<Call("status", "Starting", TRUE, None)>>,
                                            !.pl = [NoPipe EXCEPT !.at = "begin"]]]
  /\ work' = Tail(work)
  /\ pc' = [pc EXCEPT ![w] = "run"]
  /\ UNCHANGED <<parallel, env, files, closed, id_counter, items, subscribers, queues, pmsg,
                 ptargets, pret, rq, sse, lastGot, npub, emptyPub>>

\* _record_status: if item.status not in {"done", "error"}: item.status = "running"
StatusOnRecordInverted(s) == IF s \in {"done", "error"} THEN "running" ELSE s
StatusOnRecord(s) == IF s \notin {"done", "error"} THEN "running" ELSE s

SetStepAlone(steps, label, payload) ==
  [l \in {label} |-> payload]

\* steps = dict(item.steps); steps[step.label] = payload; item.steps = steps
SetStep(steps, label, payload) ==
  [l \in DOMAIN steps \cup {label} |-> IF l = label THEN payload ELSE steps[l]]

RecordedWithPaths(item, c) ==
  IF c.cb = "status"
    THEN [item EXCEPT !.status = StatusOnRecord(@), !.current = c.label]
  ELSE IF c.cb = "meta"
    THEN [item EXCEPT !.title = c.label, !.status = "running"]
  ELSE IF c.cb = "step"
    THEN [item EXCEPT !.steps = SetStep(@, c.label, [ok |-> c.ok, detail |-> c.detail]),
                      !.paths = Append(@, c.label)]
  ELSE [item EXCEPT !.progress = c.label]

Unrecorded(item, c) == item

\* the change each _record_* makes to the ItemState inside `with self._lock`
Recorded(item, c) ==
  IF c.cb = "status"
    THEN [item EXCEPT !.status = StatusOnRecord(@), !.current = c.label]
  ELSE IF c.cb = "meta"
    THEN [item EXCEPT !.title = c.label, !.status = "running"]
  ELSE IF c.cb = "step"
    THEN [item EXCEPT !.steps = SetStep(@, c.label, [ok |-> c.ok, detail |-> c.detail])]
  ELSE [item EXCEPT !.progress = c.label]

\* one _record_* call: the lock section on the item, then publish() is entered
\* (an unknown item id returns at once); `after` is the thread's new frame
Record(w, c, after) ==
  LET id == wk[w].item_id IN
  /\ wk' = [wk EXCEPT ![w] = after]
  /\ IF id \in DOMAIN items
       THEN /\ items' = [items EXCEPT ![id] = Recorded(@, c)]
            /\ StartPublish(w, c.cb, id, c.label, "run")
       ELSE UNCHANGED <<items, pmsg, npub, pret, pc>>
  /\ UNCHANGED <<parallel, env, files, closed, id_counter, work, subscribers, queues, ptargets,
                 rq, sse, lastGot, emptyPub>>

Pending(w, cb) ==
  /\ pc[w] = "run"
  /\ wk[w].calls # <<>>
  /\ Head(wk[w].calls).cb = cb

RecordStatus(w) ==
  /\ Pending(w, "status")
  /\ Record(w, Head(wk[w].calls), [wk[w] EXCEPT !.calls = Tail(@)])

RecordMetadata(w) ==
  /\ Pending(w, "meta")
  /\ Record(w, Head(wk[w].calls), [wk[w] EXCEPT !.calls = Tail(@)])

RecordStep(w) ==
  /\ Pending(w, "step")
  /\ Record(w, Head(wk[w].calls), [wk[w] EXCEPT !.calls = Tail(@)])

RecordProgress(w) ==
  /\ Pending(w, "progress")
  /\ Record(w, Head(wk[w].calls), [wk[w] EXCEPT !.calls = Tail(@)])

\* the terminal update of a run that raised
FinishAsDone(w, res) ==
  LET id == wk[w].item_id IN
  /\ items' = IF id \notin DOMAIN items THEN items
              ELSE [items EXCEPT ![id].status = "done", ![id].paths = res.paths]
  /\ StartPublish(w, "done", id, None, "idle")
  /\ wk' = [wk EXCEPT ![w] = NoWork]
  /\ UNCHANGED <<parallel, env, files, closed, id_counter, work, subscribers, queues, ptargets,
                 rq, sse, lastGot, emptyPub>>

\* run_download has returned (res.kind = "ok") or raised: the terminal _update,
\* then publish() of "done" or "error"; the thread is free afterwards
Finish(w, res) ==
  LET id == wk[w].item_id IN
  /\ items' = IF id \notin DOMAIN items THEN items
              ELSE IF res.kind = "ok"
                THEN [items EXCEPT ![id].status = "done", ![id].paths = res.paths]
                ELSE [items EXCEPT ![id].status = "error", ![id].error = res.message]
  /\ StartPublish(w, IF res.kind = "ok" THEN "done" ELSE "error", id,
                  IF res.kind = "ok" THEN None ELSE res.message, "idle")
  /\ wk' = [wk EXCEPT ![w] = NoWork]
  /\ UNCHANGED <<parallel, env, files, closed, id_counter, work, subscribers, queues, ptargets,
                 rq, sse, lastGot, emptyPub>>

\* ----- run_download as _run sees it: callbacks, then a return or a raise ----
SampleCalls ==
  { Call("status", "Metadata", TRUE, None), Call("meta", "title", TRUE, None),
    Call("step", "Metadata", TRUE, None), Call("progress", "tick", TRUE, None) }

SampleResults ==
  { [NoResult EXCEPT !.kind = "ok", !.paths = <<"file">>],
    [NoResult EXCEPT !.kind = "error", !.message = "failed"] }

Running(w) == pc[w] = "run" /\ wk[w].calls = <<>> /\ wk[w].result.kind = "none"

\* run_download calls metadata_cb / status_cb / step_cb / progress_cb
PipelineCallback(w, c) ==
  /\ Running(w)
  /\ wk[w].used < Min(env.callbacks, MaxCallbacks)
  /\ Record(w, c, [wk[w] EXCEPT !.used = @ + 1])

\* run_download returns its paths or raises
PipelineEnd(w, res) ==
  /\ Running(w)
  /\ Finish(w, res)

\* ----- the web host ---------------------------------------------------------
\* Who talks to the host in one run: concurrent requests, a batch whose runs
\* make callbacks, a batch watched by an observer, one item watched by every
\* observer, one item with unconstrained callbacks.
Deployments ==
  [parallel : 0..MaxParallel, requests : {Requests}, observers : {{}},
   urls : {MaxItems}, callbacks : {0}, interactive : {FALSE},
   entries : {0}, hooks : {0}]
  \cup
  [parallel : {MaxParallel}, requests : {{"r1"}}, observers : {{}},
   urls : {MaxItems}, callbacks : {1}, interactive : {FALSE},
   entries : {0}, hooks : {0}]
  \cup
  [parallel : {MaxParallel}, requests : {{"r1"}}, observers : {{"s1"}},
   urls : {MaxItems}, callbacks : {0}, interactive : {FALSE},
   entries : {0}, hooks : {0}]
  \cup
  [parallel : {1}, requests : {{"r1"}}, observers : {Subscribers},
   urls : {1}, callbacks : {0}, interactive : {FALSE},
   entries : {0}, hooks : {0}]
  \cup
  [parallel : {1}, requests : {{"r1"}}, observers : {{"s1"}},
   urls : {1}, callbacks : {MaxCallbacks}, interactive : {FALSE},
   entries : {0}, hooks : {0}]

\* the state after DownloadManager.__init__ and EventBroker.__init__
Boot(d) ==
  /\ parallel = d.parallel
  /\ env = d
  /\ files = <<>>
  /\ closed = FALSE
  /\ id_counter = 1
  /\ items = [k \in {} |-> None]
  /\ work = <<>>
  /\ subscribers = {}
  /\ queues = [s \in Subscribers |-> <<>>]
  /\ pc = [t \in Threads |-> "idle"]
  /\ pmsg = [t \in Threads |-> NoMessage]
  /\ ptargets = [t \in Threads |-> {}]
  /\ pret = [t \in Threads |-> None]
  /\ rq = [t \in ReqThreads |-> NoRequest]
  /\ wk = [w \in PoolThreads |-> NoWork]
  /\ sse = [s \in Subscribers |-> "idle"]
  /\ lastGot = [s \in Subscribers |-> [k \in {} |-> 0]]
  /\ npub = [k \in {} |-> 0]
  /\ emptyPub = FALSE

Init == \E d \in Deployments : Boot(d)

Next ==
  \/ \E t \in ReqThreads, urls \in UrlLists : EnqueueCall(t, urls)
  \/ \E t \in ReqThreads : EnqueueNextId(t)
  \/ \E t \in ReqThreads : EnqueueInsert(t)
  \/ \E t \in ReqThreads : EnqueueSubmit(t)
  \/ \E t \in ReqThreads : EnqueueReturn(t)
  \/ \E t \in Threads : PublishSnapshot(t)
  \/ \E t \in Threads : PublishPut(t)
  \/ \E s \in Subscribers : Subscribe(s)
  \/ \E s \in Subscribers : SseGet(s)
  \/ \E s \in Subscribers : SseDisconnect(s)
  \/ \E w \in PoolThreads : RunStart(w)
  \/ \E w \in PoolThreads : RecordStatus(w)
  \/ \E w \in PoolThreads, c \in SampleCalls : PipelineCallback(w, c)
  \/ \E w \in PoolThreads, res \in SampleResults : PipelineEnd(w, res)

Spec == Init /\ [][Next]_vars

\* ----- properties of the web host -------------------------------------------
StatusStep(a, b) ==
  \/ a = b
  \/ a = "queued" /\ b = "running"
  \/ a = "running" /\ b \in {"done", "error"}

\* C1: the status of every ItemState only moves queued -> running -> {done,
\* error}: an item is created queued, never returns to queued, and once it is
\* done or error it never changes again, whatever callbacks the run makes.
C1_StatusForward ==
  [][ /\ \A k \in DOMAIN items :
           k \in DOMAIN items' /\ StatusStep(items[k].status, items'[k].status)
      /\ \A k \in DOMAIN items' \ DOMAIN items : items'[k].status = "queued" ]_vars

C1_Witness ==
  \E k \in DOMAIN items :
    /\ items[k].status \in {"done", "error"}
    /\ items[k].current = "Metadata"
    /\ items[k].title # None

Executing == {w \in PoolThreads : wk[w].item_id # <<>>}

\* C2: the number of pool threads inside _run (and so inside run_download and
\* every sub-item fetch it makes in turn) never exceeds max(1, parallel).
C2_BoundedWorkers == Cardinality(Executing) <= Max(1, parallel)

C2_Witness == parallel = 0 /\ Cardinality(Executing) = 1 /\ work # <<>>

InWork(id) == {i \in 1..Len(work) : work[i].item_id = id}
Holders(id) ==
  Cardinality(InWork(id)) + Cardinality({w \in PoolThreads : wk[w].item_id = id})
BeforeSubmit(id) ==
  \E t \in ReqThreads :
    /\ rq[t].item_id = id
    /\ pc[t] \in {"publish", "put", "submit"}

\* C3: every enqueued id is handed to the pool exactly once: it is in the work
\* queue or in the frame of exactly one pool thread until its run has ended,
\* and an ItemState only changes while exactly one pool thread runs its id.
C3_SingleWorker ==
  /\ [](\A id \in DOMAIN items :
          IF BeforeSubmit(id) THEN Holders(id) = 0
          ELSE IF items[id].status \in {"done", "error"} THEN Holders(id) = 0
          ELSE Holders(id) = 1)
  /\ [][\A id \in DOMAIN items :
          (id \in DOMAIN items' /\ items'[id] # items[id]) =>
             \E w \in PoolThreads :
               /\ wk[w].item_id = id
               /\ wk'[w] # wk[w]
               /\ \A v \in PoolThreads \ {w} : wk[v].item_id # id]_vars

C3_Witness ==
  \E w, v \in PoolThreads :
    /\ w # v
    /\ wk[w].item_id # <<>> /\ wk[v].item_id # <<>>
    /\ items[wk[w].item_id].status = "running"
    /\ items[wk[v].item_id].status = "running"

\* the numbers n of the messages about item id in a queue, in queue order
RECURSIVE NumbersOf(_, _)
NumbersOf(q, id) ==
  IF q = <<>> THEN <<>>
  ELSE IF Head(q).id = id THEN <<Head(q).n>> \o NumbersOf(Tail(q), id)
  ELSE NumbersOf(Tail(q), id)

Increasing(ns) == \A i \in 1..(Len(ns) - 1) : ns[i] < ns[i + 1]

\* C4: an attached subscriber gets the messages about one item in the order
\* the manager published them: what it has read and what waits in its queue
\* carry increasing publication numbers, "queued" being the first.
C4_PerItemOrder ==
  \A s \in Subscribers : sse[s] = "attached" =>
    \A id \in DOMAIN npub :
      LET ns == NumbersOf(queues[s], id) IN
        /\ Increasing(ns)
        /\ (ns # <<>> /\ id \in DOMAIN lastGot[s]) => lastGot[s][id] < ns[1]
        /\ \A i \in 1..Len(queues[s]) :
             queues[s][i].type = "queued" => queues[s][i].n = 1

C4_Witness ==
  \E s \in Subscribers :
    /\ sse[s] = "attached"
    /\ lastGot[s] # [k \in {} |-> 0]
    /\ \E i, j, k \in 1..Len(queues[s]) :
         /\ i < j /\ j < k
         /\ queues[s][i].id = queues[s][k].id
         /\ queues[s][j].id # queues[s][i].id

\* C5: publish never waits and never fails: a thread inside publish can
\* always take its next step, with no subscriber or with one that never
\* reads, and each put appends the message to the subscriber's queue.
C5_PublishNeverBlocks ==
  /\ [](\A th \in Threads :
          pc[th] \in {"publish", "put"} =>
            ENABLED (PublishSnapshot(th) \/ PublishPut(th)))
  /\ [][\A th \in Threads :
          pc[th] = "put" =>
            \A s \in ptargets[th] \ ptargets'[th] :
              queues'[s] = Append(queues[s], pmsg[th])]_vars

C5_Witness ==
  /\ emptyPub
  /\ \E s, r \in Subscribers :
       /\ s # r
       /\ sse[s] = "attached" /\ sse[r] = "attached"
       /\ lastGot[s] = [k \in {} |-> 0] /\ Len(queues[s]) >= 2
       /\ lastGot[r] # [k \in {} |-> 0]
  /\ \E k \in DOMAIN items : items[k].status \in {"done", "error"}
  /\ \A w \in PoolThreads : pc[w] = "idle"

\* C6: the queue of a subscriber never holds more than a fixed number of
\* undelivered messages.
C6_BoundedQueue == \A s \in Subscribers : Len(queues[s]) <= ClaimedCapacity

\* C7: enqueue returns one ItemState per URL, in input order, and each of
\* them is queued at the moment enqueue returns.
C7_ReturnsQueued ==
  \A t \in ReqThreads : pc[t] = "returned" =>
    /\ Len(rq[t].ret) = Len(rq[t].urls)
    /\ \A i \in 1..Len(rq[t].ret) :
         /\ items[rq[t].items[i]].url = rq[t].urls[i]
         /\ rq[t].ret[i] = "queued"

RECURSIVE Created(_)
Created(S) ==
  IF S = {} THEN <<>>
  ELSE LET t == CHOOSE x \in S : TRUE IN rq[t].items \o Created(S \ {t})

ProgressInterval == 2
\* `best.confidence < 0.6`, in hundredths
LowConfidence == 60
\* Ui(level="quiet") in DownloadManager._run; print_path_only keeps its default
UiLevel == "quiet"
PrintPathOnly == FALSE
\* resolve_candidates(item, preferred=preferred, limit=5)
ResolveLimit == 5

MaxHooks == 2
MaxEntries == 2

\* ----- resolver.py: resolve_candidates --------------------------------------
MaxSearch == 3

\* `entry.get("webpage_url") or entry.get("url")` of a search hit: nothing, a
\* bare video id, or a full URL
NoRef == <<>>
Refs == {NoRef, <<"id", "x1">>, <<"url", "x1">>, <<"url", "x2">>}

\* a search hit, with the confidence _score_candidate gives it (hundredths)
SearchEntries == [ref : Refs, score : {LowConfidence - 1, LowConfidence}]

\* _entry_url: a YouTube hit without "://" becomes a watch URL
EntryUrl(provider, entry) ==
  IF entry.ref = NoRef THEN NoRef
  ELSE IF provider = "youtube" /\ entry.ref[1] = "id" THEN <<"url", entry.ref[2]>>
  ELSE entry.ref

\* deduped[url] = e on a dict: a new key goes last, a known key keeps its
\* place and takes the new value
DictSet(d, url, e) ==
  IF \E i \in 1..Len(d) : d[i].url = url
    THEN [i \in 1..Len(d) |-> IF d[i].url = url THEN [url |-> url, e |-> e] ELSE d[i]]
    ELSE Append(d, [url |-> url, e |-> e])

\* for e in entries: url = _entry_url(provider, e); skip if not url
RECURSIVE Deduped(_, _)
Deduped(provider, entries) ==
  IF entries = <<>> THEN <<>>
  ELSE LET d == Deduped(provider, SubSeq(entries, 1, Len(entries) - 1))
           e == entries[Len(entries)]
           url == EntryUrl(provider, e)
       IN IF url = NoRef THEN d ELSE DictSet(d, url, e)

\* ResolvedSource(url=url, provider=provider,
\* confidence=_score_candidate(item, e), ...)
Scored(provider, d) ==
  [i \in 1..Len(d) |->
     [url |-> d[i].url, provider |-> provider, confidence |-> d[i].e.score]]

InsertAhead(sorted, c) ==
  LET k == Cardinality({i \in 1..Len(sorted) : sorted[i].confidence > c.confidence})
  IN SubSeq(sorted, 1, k) \o <<c>> \o SubSeq(sorted, k + 1, Len(sorted))

\* list.sort(key=confidence, reverse=True) is stable: c goes behind every
\* element whose confidence is at least its own
Insert(sorted, c) ==
  LET k == Cardinality({i \in 1..Len(sorted) : sorted[i].confidence >= c.confidence})
  IN SubSeq(sorted, 1, k) \o <<c>> \o SubSeq(sorted, k + 1, Len(sorted))

RECURSIVE SortByConfidence(_)
SortByConfidence(cs) ==
  IF cs = <<>> THEN <<>>
  ELSE Insert(SortByConfidence(SubSeq(cs, 1, Len(cs) - 1)), cs[Len(cs)])

\* candidates[:limit] for limit >= 0
Take(cs, limit) == SubSeq(cs, 1, Min(Len(cs), limit))

\* the tail of _resolve_candidates_from_search, from `if not entries`
Ranked(provider, entries, limit) ==
  IF entries = <<>> THEN <<>>
  ELSE Take(SortByConfidence(Scored(provider, Deduped(provider, entries))), limit)

\* `if not item.title`
MissingNoneOnly(title) == title = None
Missing(title) == title \in {None, ""}

\* ----- pipeline.py: inputs ------------------------------------------------
Codecs == {None, "none", "codec"}
PostprocessorNames == {None, "Merger", "EmbedThumbnail"}
Suffixes == {".mp4", ".m4a", ".webm"}
TagOutcomes == {"ok", "TagError", "OSError"}

Entries(provider, kind, n) == [i \in 1..n |-> Item(provider, kind, Str(i), <<>>)]

IsCollection(item) == item.kind \in {"playlist", "album"}

\* what _fetch_metadata can return for a URL: a track or a video, or an album
\* or a playlist of n entries
ItemShapes ==
  { <<"spotify", "track">>, <<"youtube", "video">>,
    <<"spotify", "album">>, <<"youtube", "playlist">> }

MetadataItem(url, shape, n) ==
  Item(shape[1], shape[2], url,
       IF shape[2] = "album" THEN Entries(shape[1], "track", n)
       ELSE IF shape[2] = "playlist" THEN Entries(shape[1], "video", n)
       ELSE <<>>)
NeedsResolve(item) == item.provider = "spotify" /\ item.kind = "track"

Error(message, stage) ==
  [NoResult EXCEPT !.kind = "error", !.message = message, !.stage = stage]

IsStr(c) == c # None
DownloadStepLabel(vcodec, acodec) ==
  IF IsStr(vcodec) /\ vcodec # "none" /\ (acodec = None \/ acodec = "none")
    THEN "Video data"
  ELSE IF IsStr(acodec) /\ acodec # "none" /\ (vcodec = None \/ vcodec = "none")
    THEN "Audio data"
  ELSE IF IsStr(vcodec) /\ vcodec # "none" /\ IsStr(acodec) /\ acodec # "none"
    THEN "Media data"
  ELSE None

PostprocessLabel(name) ==
  IF name = None THEN "Post-process"
  ELSE IF name = "Merger" THEN "Remux"
  ELSE IF name = "FFmpegExtractAudio" THEN "Extract audio"
  ELSE IF name = "FFmpegVideoConvertor" THEN "Convert video"
  ELSE IF name = "EmbedThumbnail" THEN "Embed artwork"
  ELSE IF name = "FFmpegMetadata" THEN "Write metadata"
  ELSE "Fixup stream"

IsStepCall(c) == c.cb = "step"

\* one stretch of pipeline code: the callbacks it makes, in order, its new
\* locals, and the result once run_download has returned or raised
Proceed(w, pl, calls, result) ==
  /\ wk' = [wk EXCEPT ![w].pl = [pl EXCEPT !.events = @ \o SelectSeq(calls, IsStepCall)],
                      ![w].calls = calls,
                      ![w].result = result]
  /\ UNCHANGED <<parallel, env, files, closed, id_counter, items, work, subscribers, queues,
                 pc, pmsg, ptargets, pret, rq, sse, lastGot, npub, emptyPub>>

\* as Raised, with the loop of _run_collection left at the first failure
RaisedBreaking(pl, err) ==
  IF pl.in_collection
    THEN [pl EXCEPT !.at = "next_entry", !.suffix = None, !.candidates = <<>>,
                    !.download_url = None, !.todo = <<>>,
                    !.failures = Append(@, [url |-> pl.cur.url, message |-> err.message,
                                            stage |-> err.stage])]
    ELSE [pl EXCEPT !.at = "raised", !.suffix = None, !.candidates = <<>>,
                    !.download_url = None]

\* an exception leaves _run_single: _run_collection records it and continues,
\* run_download lets it through to _run
Raised(pl, err) ==
  IF pl.in_collection
    THEN [pl EXCEPT !.at = "next_entry", !.suffix = None, !.candidates = <<>>,
                    !.download_url = None,
                    !.failures = Append(@, [url |-> pl.cur.url, message |-> err.message,
                                            stage |-> err.stage])]
    ELSE [pl EXCEPT !.at = "raised", !.suffix = None, !.candidates = <<>>,
                    !.download_url = None]

RaisedResult(pl, err) == IF pl.in_collection THEN NoResult ELSE err

At(w, at) == Running(w) /\ wk[w].pl.at = at

\* the locals _run_single sets up before download_with_ytdlp; `gap` is
\* now - last_update, `quiet` the time since the last progress_callback call
\* and `sep` the time between the last two, all cut at ProgressInterval + 1
DownloadLocals(pl) ==
  [pl EXCEPT !.at = "download", !.entered = @ \cup {"Download"},
             !.download_steps_started = {}, !.download_steps_done = {},
             !.postprocess_steps_started = {}, !.postprocess_steps_done = {},
             !.gap = ProgressInterval + 1, !.quiet = ProgressInterval + 1,
             !.sep = ProgressInterval + 1]

\* _tick(live, status_callback, "Metadata")
RunDownload(w) ==
  /\ At(w, "begin")
  /\ Proceed(w, [wk[w].pl EXCEPT !.at = "metadata", !.entered = @ \cup {"Metadata"}],
             <<Call("status", "Metadata", TRUE, None)>>, NoResult)

\* _fetch_metadata raises or returns the item
FetchMetadata(w, ok, shape, n) ==
  LET item == MetadataItem(wk[w].url, shape, n) IN
  /\ At(w, "metadata")
  /\ n <= Min(env.entries, MaxEntries)
  /\ IF ok
       THEN Proceed(w, [wk[w].pl EXCEPT !.item = item, !.cur = item,
                                        !.at = IF IsCollection(item) THEN "collection"
                                                                     ELSE "single"],
                    <<Call("meta", "title", TRUE, None),
                      Call("step", "Metadata", TRUE, None)>>, NoResult)
       ELSE Proceed(w, [wk[w].pl EXCEPT !.at = "raised"],
                    <<Call("step", "Metadata", FALSE, "metadata failed")>>,
                    Error("metadata failed", "Metadata"))

\* _run_collection up to its loop
RunCollection(w) ==
  /\ At(w, "collection")
  /\ IF wk[w].pl.item.entries = <<>>
       THEN Proceed(w, [wk[w].pl EXCEPT !.at = "raised"], <<>>,
                    Error("This collection has no entries", "Metadata"))
       ELSE Proceed(w, [wk[w].pl EXCEPT !.at = "next_entry", !.todo = wk[w].pl.item.entries,
                                        !.saved = <<>>, !.failures = <<>>],
                    <<>>, NoResult)

\* one turn of `for idx, entry in enumerate(item.entries, start=1)`
NextEntry(w) ==
  /\ At(w, "next_entry")
  /\ wk[w].pl.todo # <<>>
  /\ Proceed(w, [wk[w].pl EXCEPT !.cur = Head(wk[w].pl.todo), !.todo = Tail(@),
                                 !.in_collection = TRUE, !.at = "single",
                                 !.events = <<>>, !.entered = {}],
             <<>>, NoResult)

\* after the loop: PartialSuccessError carrying saved_paths and failures,
\* MetadataError, or the saved paths
CollectionResultAllOrNothing(saved, failures) ==
  IF failures # <<>>
    THEN Error("All items in the collection failed.", "Downloading")
    ELSE [NoResult EXCEPT !.kind = "ok", !.paths = saved]
CollectionResult(saved, failures) ==
  IF failures # <<>> /\ saved # <<>>
    THEN [NoResult EXCEPT !.kind = "partial", !.message = "items failed",
                          !.stage = "Downloading", !.paths = saved,
                          !.failures = failures]
  ELSE IF failures # <<>>
    THEN Error("All items in the collection failed.", "Downloading")
  ELSE [NoResult EXCEPT !.kind = "ok", !.paths = saved]

CollectionEnd(w) ==
  LET pl == wk[w].pl IN
  /\ At(w, "next_entry")
  /\ pl.todo = <<>>
  /\ Proceed(w, [pl EXCEPT !.at = "returned"], <<>>,
             CollectionResult(pl.saved, pl.failures))

\* the head of _run_single: the Resolve tick, or straight on to the download
RunSingle(w) ==
  LET pl == wk[w].pl IN
  /\ At(w, "single")
  /\ IF NeedsResolve(pl.cur)
       THEN Proceed(w, [pl EXCEPT !.at = "resolve", !.entered = @ \cup {"Resolve"}],
                    <<Call("status", "Resolve", TRUE, None)>>, NoResult)
       ELSE Proceed(w, DownloadLocals([pl EXCEPT !.download_url = pl.cur.url]),
                    <<Call("status", "Download: name", TRUE, None)>>, NoResult)

\* resolve_candidates raises ResolveError (no title, the search failed)
ResolveSearchRaises(w) ==
  LET err == Error("search failed", "Resolve") IN
  /\ At(w, "resolve")
  /\ Proceed(w, Raised(wk[w].pl, err), <<>>, RaisedResult(wk[w].pl, err))

\* `if not candidates`
ResolveNoCandidates(w) ==
  LET err == Error("No resolver candidates found.", "Resolve") IN
  /\ At(w, "resolve")
  /\ Proceed(w, Raised(wk[w].pl, err),
             <<Call("step", "Resolve", FALSE, err.message)>>, RaisedResult(wk[w].pl, err))

\* the searches whose ranking reaches the pipeline in this model
PipeSearches ==
  { <<[ref |-> <<"id", "x1">>, score |-> LowConfidence - 1]>>,
    <<[ref |-> <<"id", "x1">>, score |-> LowConfidence]>>,
    <<[ref |-> <<"id", "x1">>, score |-> LowConfidence - 1],
      [ref |-> <<"url", "x2">>, score |-> LowConfidence]>> }

\* resolve_candidates returns a non-empty ranking
ResolveCandidates(w, search) ==
  /\ At(w, "resolve")
  /\ Proceed(w, [wk[w].pl EXCEPT !.at = "resolved",
                                 !.candidates = Ranked("youtube", search, ResolveLimit)],
             <<>>, NoResult)

\* `best.confidence < 0.6`
LowConfidenceMatchInclusive(confidence) == confidence <= LowConfidence
LowConfidenceMatch(confidence) == confidence < LowConfidence

\* `ui.level == "quiet" or ui.print_path_only`
PromptRefusedNever(level, print_path_only) == FALSE
PromptRefused(level, print_path_only) == level = "quiet" \/ print_path_only

\* what _run_single does with the ranking: fail on a low-confidence best
\* match, refuse to prompt, prompt, or take the best match
ResolveDecision(confidence, interactive, level, print_path_only) ==
  IF LowConfidenceMatch(confidence) /\ ~interactive THEN "low"
  ELSE IF interactive /\ PromptRefused(level, print_path_only) THEN "refused"
  ELSE IF interactive THEN "prompt"
  ELSE "selected"

\* best = candidates[0] and the branches on its confidence and on
\* `interactive`; a prompt waits in ui.console.input
SelectCandidate(w) ==
  LET pl == wk[w].pl
      best == pl.candidates[1]
      decision == ResolveDecision(best.confidence, env.interactive, UiLevel, PrintPathOnly)
      low == Error("Low confidence match.", "Resolve")
      quiet == Error("Interactive mode is not available with --quiet/--print-path.",
                     "Resolve")
  IN
  /\ At(w, "resolved")
  /\ IF decision = "low"
       THEN Proceed(w, Raised(pl, low), <<Call("step", "Resolve", FALSE, low.message)>>,
                    RaisedResult(pl, low))
     ELSE IF decision = "refused"
       THEN Proceed(w, Raised(pl, quiet), <<Call("step", "Resolve", FALSE, quiet.message)>>,
                    RaisedResult(pl, quiet))
     ELSE IF decision = "prompt"
       THEN Proceed(w, [pl EXCEPT !.at = "prompt"], <<>>, NoResult)
     ELSE Proceed(w, DownloadLocals([pl EXCEPT !.download_url = best.url]),
                  <<Call("step", "Resolve", TRUE, None),
                    Call("status", "Download: name", TRUE, None)>>, NoResult)

\* _hook with status "downloading": the first report of a sub-download ticks
\* its label; progress goes out when more than 0.2 s have passed since the last
HookDownloading(w, vcodec, acodec, downloaded, dt) ==
  LET pl == wk[w].pl
      step_label == DownloadStepLabel(vcodec, acodec)
      first == step_label # None /\ step_label \notin pl.download_steps_started
      gap == Min(ProgressInterval + 1, pl.gap + dt)
      quiet == Min(ProgressInterval + 1, pl.quiet + dt)
      due == downloaded /\ gap > ProgressInterval
  IN
  /\ At(w, "download")
  /\ pl.hooks < Min(env.hooks, MaxHooks)
  /\ Proceed(w, [pl EXCEPT !.hooks = @ + 1,
                           !.download_steps_started =
                              IF first THEN @ \cup {step_label} ELSE @,
                           !.gap = IF due THEN 0 ELSE gap,
                           !.quiet = IF due THEN 0 ELSE quiet,
                           !.sep = IF due THEN quiet ELSE @],
             (IF first THEN <<Call("status", step_label, TRUE, None)>> ELSE <<>>)
               \o (IF due THEN <<Call("progress", "update", TRUE, None)>> ELSE <<>>),
             NoResult)

\* _hook with status "finished": one step per sub-download label, and the
\* final progress update every time
HookFinished(w, vcodec, acodec, dt) ==
  LET pl == wk[w].pl
      step_label == DownloadStepLabel(vcodec, acodec)
      newly == step_label # None /\ step_label \notin pl.download_steps_done
  IN
  /\ At(w, "download")
  /\ pl.hooks < Min(env.hooks, MaxHooks)
  /\ Proceed(w, [pl EXCEPT !.hooks = @ + 1,
                           !.download_steps_done =
                              IF newly THEN @ \cup {step_label} ELSE @,
                           !.gap = Min(ProgressInterval + 1, @ + dt),
                           !.quiet = 0,
                           !.sep = Min(ProgressInterval + 1, pl.quiet + dt)],
             (IF newly THEN <<Call("step", step_label, TRUE, None)>> ELSE <<>>)
               \o <<Call("progress", "complete", TRUE, None)>>,
             NoResult)

\* _pp_hook: "started" only notes the time (live is None under _run),
\* "finished" emits one step per label
PostprocessHook(w, status, name) ==
  LET pl == wk[w].pl
      label == PostprocessLabel(name)
  IN
  /\ At(w, "download")
  /\ pl.hooks < Min(env.hooks, MaxHooks)
  /\ IF status = "started"
       THEN Proceed(w, [pl EXCEPT !.hooks = @ + 1, !.entered = @ \cup {label},
                                  !.postprocess_steps_started = @ \cup {label}],
                    <<>>, NoResult)
       ELSE Proceed(w, [pl EXCEPT !.hooks = @ + 1, !.entered = @ \cup {label},
                                  !.postprocess_steps_done = @ \cup {label}],
                    IF label \notin pl.postprocess_steps_done
                      THEN <<Call("step", label, TRUE, None)>> ELSE <<>>,
                    NoResult)

\* download_with_ytdlp raises DownloadError
DownloadRaises(w) ==
  LET err == Error("yt-dlp failed", "Downloading") IN
  /\ At(w, "download")
  /\ Proceed(w, Raised([wk[w].pl EXCEPT !.gap = 0, !.quiet = 0, !.sep = 0], err),
             <<Call("step", "Download", FALSE, err.message)>>, RaisedResult(wk[w].pl, err))

\* download_with_ytdlp returns: `if not download_steps_done` the Download
\* step, then the choice of the mp4 pass
DownloadReturns(w, prefer_mp3_mp4, suffix) ==
  LET pl == wk[w].pl IN
  /\ At(w, "download")
  /\ Proceed(w, [pl EXCEPT !.suffix = suffix, !.candidates = <<>>, !.download_url = None,
                           !.gap = 0, !.quiet = 0, !.sep = 0,
                           !.at = IF prefer_mp3_mp4 /\ suffix = ".mp4" THEN "optimize"
                                                                         ELSE "tagging"],
             IF pl.download_steps_done = {}
               THEN <<Call("step", "Download", TRUE, None)>> ELSE <<>>,
             NoResult)

\* _ensure_playable_mp4 between its tick and its step
OptimizeMp4(w, ok) ==
  LET pl == [wk[w].pl EXCEPT !.entered = @ \cup {"Optimize mp4"}]
      err == Error("ffmpeg failed", "Post-process")
  IN
  /\ At(w, "optimize")
  /\ IF ok
       THEN Proceed(w, [pl EXCEPT !.at = "tagging"],
                    <<Call("status", "Optimize mp4", TRUE, None),
                      Call("step", "Optimize mp4", TRUE, None)>>, NoResult)
       ELSE Proceed(w, Raised(pl, err),
                    <<Call("status", "Optimize mp4", TRUE, None),
                      Call("step", "Optimize mp4", FALSE, err.message)>>,
                    RaisedResult(pl, err))

\* the Tagging tick, the Tagging step (a TagError gives ok with detail
\* "skipped"), then the Saved step
TaggingCallsSavedFirst(ok, path) ==
  << Call("status", "Tagging", TRUE, None),
     Call("step", "Saved", TRUE, path),
     Call("step", "Tagging", TRUE, IF ok THEN None ELSE "skipped") >>
TaggingCalls(ok, path) ==
  << Call("status", "Tagging", TRUE, None),
     Call("step", "Tagging", TRUE, IF ok THEN None ELSE "skipped"),
     Call("step", "Saved", TRUE, path) >>

\* what tag_file can do for a file of this suffix: _tag_mp3 and _tag_mp4 turn
\* every exception into TagError; _tag_with_ffmpeg raises TagError for ffmpeg,
\* but its NamedTemporaryFile and tmp_path.replace(path) raise OSError as it is
CanRaise(suffix, outcome) ==
  outcome = "OSError" => suffix \notin {".mp3", ".m4a", ".mp4"}

\* the Tagging tick, tag_file, and unless an exception other than
\* RipmediaError leaves the try, the Tagging and Saved steps and the return of
\* _run_single: into `saved` of the collection loop, or out of run_download
\* as [path]
TagFile(w, outcome) ==
  LET pl == [wk[w].pl EXCEPT !.entered = @ \cup {"Tagging", "Saved"}]
      path == pl.cur.url
      err == Error("tagging raised", None)
  IN
  /\ At(w, "tagging")
  /\ CanRaise(pl.suffix, outcome)
  /\ IF outcome = "OSError"
       THEN Proceed(w, Raised([pl EXCEPT !.entered = @ \ {"Saved"}], err),
                    <<Call("status", "Tagging", TRUE, None)>>, RaisedResult(pl, err))
     ELSE IF pl.in_collection
       THEN Proceed(w, [pl EXCEPT !.at = "next_entry", !.suffix = None,
                                  !.saved = Append(@, path)],
                    TaggingCalls(outcome = "ok", path), NoResult)
       ELSE Proceed(w, [pl EXCEPT !.at = "returned", !.suffix = None],
                    TaggingCalls(outcome = "ok", path),
                    [NoResult EXCEPT !.kind = "ok", !.paths = <<path>>])

\* back in _run: the except clauses or the "done" tail
RunFinish(w) ==
  /\ pc[w] = "run"
  /\ wk[w].calls = <<>>
  /\ wk[w].result.kind # "none"
  /\ Finish(w, wk[w].result)

\* one URL, one worker, nobody listening, settings.interactive either way:
\* a collection whose downloads report once, a single item whose download
\* reports repeatedly
PipeDeployments ==
  [parallel : {1}, requests : {{"r1"}}, observers : {{}}, urls : {1},
   callbacks : {0}, interactive : BOOLEAN, entries : {MaxEntries}, hooks : {1}]
  \cup
  [parallel : {1}, requests : {{"r1"}}, observers : {{}}, urls : {1},
   callbacks : {0}, interactive : BOOLEAN, entries : {0}, hooks : {MaxHooks}]

InitPipe == \E d \in PipeDeployments : Boot(d)

NextPipe ==
  \/ \E t \in ReqThreads, urls \in UrlLists : EnqueueCall(t, urls)
  \/ \E t \in ReqThreads : EnqueueNextId(t)
  \/ \E t \in ReqThreads : EnqueueInsert(t)
  \/ \E t \in ReqThreads : EnqueueSubmit(t)
  \/ \E t \in ReqThreads : EnqueueReturn(t)
  \/ \E t \in Threads : PublishSnapshot(t)
  \/ \E w \in PoolThreads : RunStart(w)
  \/ \E w \in PoolThreads : RecordStatus(w)
  \/ \E w \in PoolThreads : RecordMetadata(w)
  \/ \E w \in PoolThreads : RecordStep(w)
  \/ \E w \in PoolThreads : RecordProgress(w)
  \/ \E w \in PoolThreads : RunDownload(w)
  \/ \E w \in PoolThreads, ok \in BOOLEAN, shape \in ItemShapes, n \in 0..MaxEntries :
       FetchMetadata(w, ok, shape, n)
  \/ \E w \in PoolThreads : RunCollection(w)
  \/ \E w \in PoolThreads : NextEntry(w)
  \/ \E w \in PoolThreads : CollectionEnd(w)
  \/ \E w \in PoolThreads : RunSingle(w)
  \/ \E w \in PoolThreads : ResolveSearchRaises(w)
  \/ \E w \in PoolThreads : ResolveNoCandidates(w)
  \/ \E w \in PoolThreads, search \in PipeSearches : ResolveCandidates(w, search)
  \/ \E w \in PoolThreads : SelectCandidate(w)
  \/ \E w \in PoolThreads, vcodec \in Codecs, acodec \in Codecs,
        downloaded \in BOOLEAN, dt \in {0, ProgressInterval + 1} :
       HookDownloading(w, vcodec, acodec, downloaded, dt)
  \/ \E w \in PoolThreads, vcodec \in Codecs, acodec \in Codecs,
        dt \in {0, ProgressInterval + 1} : HookFinished(w, vcodec, acodec, dt)
  \/ \E w \in PoolThreads, status \in {"started", "finished"},
        name \in PostprocessorNames : PostprocessHook(w, status, name)
  \/ \E w \in PoolThreads : DownloadRaises(w)
  \/ \E w \in PoolThreads, prefer_mp3_mp4 \in BOOLEAN, suffix \in Suffixes :
       DownloadReturns(w, prefer_mp3_mp4, suffix)
  \/ \E w \in PoolThreads, ok \in BOOLEAN : OptimizeMp4(w, ok)
  \/ \E w \in PoolThreads, outcome \in TagOutcomes : TagFile(w, outcome)
  \/ \E w \in PoolThreads : RunFinish(w)

SpecPipe == InitPipe /\ [][NextPipe]_vars

\* ----- properties of the pipeline -------------------------------------------
\* the place of a StepResult label in Metadata, Resolve, Download, Tagging,
\* Saved; 0 for the post-process labels
StageRank(label) ==
  IF label = "Metadata" THEN 1
  ELSE IF label = "Resolve" THEN 2
  ELSE IF label \in {"Download", "Video data", "Audio data", "Media data"} THEN 3
  ELSE IF label = "Tagging" THEN 4
  ELSE IF label = "Saved" THEN 5
  ELSE 0

\* the stage a label belongs to: sub-downloads are the Download stage
StageOf(label) == IF StageRank(label) = 3 THEN "Download" ELSE label

SingleRun(w) ==
  /\ pc[w] = "run"
  /\ wk[w].pl.at # "off"
  /\ ~wk[w].pl.in_collection
  /\ ~IsCollection(wk[w].pl.item)

\* the stages that must have reported before a Tagging or Saved event can
StagesBefore(item, rank) ==
  {r \in 1..(rank - 1) : r # 2 \/ NeedsResolve(item)}

\* C9: for a non-collection item the StepResults reach step_callback in the
\* order Metadata, Resolve (only for an item that needs resolving), Download,
\* Tagging, Saved: every ranked event comes after one event of each earlier
\* stage and before every event of a later stage, no stage but Download
\* reports twice, Saved is the last event, and a run that returns ends on it.
C9_StageOrder ==
  \A w \in PoolThreads :
    LET ev == wk[w].pl.events
        item == wk[w].pl.item
        rank(i) == StageRank(ev[i].label)
    IN
    SingleRun(w) =>
      /\ \A i, j \in 1..Len(ev) :
           (i < j /\ rank(i) > 0 /\ rank(j) > 0) =>
             \/ rank(i) < rank(j)
             \/ rank(i) = 3 /\ rank(j) = 3
      /\ \A j \in 1..Len(ev) :
           \A r \in StagesBefore(item, rank(j)) : \E i \in 1..(j - 1) : rank(i) = r
      /\ \A i \in 1..Len(ev) : ev[i].label = "Resolve" => NeedsResolve(item)
      /\ \A i \in 1..Len(ev) : ev[i].label = "Saved" => i = Len(ev)
      /\ wk[w].result.kind = "ok" => (ev # <<>> /\ ev[Len(ev)].label = "Saved")

\* a resolved single track whose audio sub-download finished has returned
C9_Witness ==
  \E w \in PoolThreads :
    /\ SingleRun(w)
    /\ wk[w].result.kind = "ok"
    /\ NeedsResolve(wk[w].pl.item)
    /\ \E i \in 1..Len(wk[w].pl.events) : wk[w].pl.events[i].label = "Audio data"
    /\ \E i \in 1..Len(wk[w].pl.events) : wk[w].pl.events[i].label = "Tagging"

EventsOf(ev, stage) == {i \in 1..Len(ev) : StageOf(ev[i].label) = stage}

\* C10: when a single-item run has ended, every stage it entered has emitted
\* exactly one StepResult, a failed one carries a detail, and a run that
\* returned has only ok events.
C10_OneEventPerStage ==
  \A w \in PoolThreads :
    LET ev == wk[w].pl.events IN
    (SingleRun(w) /\ wk[w].result.kind # "none") =>
      /\ \A stage \in wk[w].pl.entered : Cardinality(EventsOf(ev, stage)) = 1
      /\ \A i \in 1..Len(ev) : ~ev[i].ok => ev[i].detail # None
      /\ wk[w].result.kind = "ok" => \A i \in 1..Len(ev) : ev[i].ok

\* a single-item run in which some stage has failed: a failing StepResult was
\* emitted or the exception has left _run_single
FailedRun(w) ==
  /\ SingleRun(w)
  /\ \/ wk[w].pl.at = "raised"
     \/ \E i \in 1..Len(wk[w].pl.events) : ~wk[w].pl.events[i].ok

\* C11: when Metadata, Resolve, Download or a post-process step of a
\* non-collection item fails, run_download raises (the run's result is an
\* error), the failing StepResult is the last one emitted and no Tagging or
\* Saved event exists for the item, and when _run finishes the item its status
\* is error and its error field is the failure message.
C11_FailureIsFatal ==
  /\ [](\A w \in PoolThreads :
          LET ev == wk[w].pl.events IN
          FailedRun(w) =>
            /\ wk[w].pl.at = "raised"
            /\ wk[w].result.kind = "error"
            /\ \A i \in 1..Len(ev) : ~ev[i].ok => i = Len(ev)
            /\ \A i \in 1..Len(ev) : ev[i].label \notin {"Tagging", "Saved"})
  /\ [][\A w \in PoolThreads :
          (FailedRun(w) /\ wk'[w] = NoWork) =>
            /\ wk[w].item_id \in DOMAIN items'
            /\ items'[wk[w].item_id].status = "error"
            /\ items'[wk[w].item_id].error = wk[w].result.message]_vars

\* a single item whose download raised after a finished sub-download has been
\* ended by its worker
C11_Witness ==
  \E id \in DOMAIN items :
    /\ items[id].status = "error"
    /\ items[id].error = "yt-dlp failed"
    /\ "Download" \in DOMAIN items[id].steps
    /\ "Video data" \in DOMAIN items[id].steps
    /\ \A w \in PoolThreads : wk[w].item_id # id

\* C12: once the download and its post-processing have succeeded, whatever
\* tag_file does the item is not aborted: the step that leaves the Tagging
\* stage emits a Tagging StepResult with ok = true (detail "skipped" when the
\* tagger failed) followed by Saved, and the file path is returned as a
\* success (appended to `saved` inside a collection).
C12_TaggingNeverAborts ==
  [][\A w \in PoolThreads :
       (pc[w] = "run" /\ wk[w].pl.at = "tagging" /\ wk'[w].pl.at # "tagging") =>
         LET ev == wk'[w].pl.events
             path == wk[w].pl.cur.url
         IN
         /\ Len(ev) >= 2
         /\ ev[Len(ev)].label = "Saved"
         /\ ev[Len(ev) - 1].label = "Tagging"
         /\ ev[Len(ev) - 1].ok
         /\ ev[Len(ev) - 1].detail \in {None, "skipped"}
         /\ IF wk[w].pl.in_collection
              THEN wk'[w].pl.saved = Append(wk[w].pl.saved, path)
              ELSE /\ wk'[w].result.kind = "ok"
                   /\ wk'[w].result.paths = <<path>>]_vars

\* the last StepResult a thread has emitted is Resolve with this outcome
LastIsResolve(frame, ok) ==
  /\ frame.pl.events # <<>>
  /\ frame.pl.events[Len(frame.pl.events)].label = "Resolve"
  /\ frame.pl.events[Len(frame.pl.events)].ok = ok

\* C13: interactive selection not requested, the ranking in hand: a best
\* candidate below 0.6 fails the run at Resolve (failing Resolve StepResult,
\* error stage Resolve) and no download is begun; a best candidate at or above
\* 0.6 emits Resolve ok and begins the download with the best candidate's URL.
C13_LowConfidenceFatal ==
  [][\A w \in PoolThreads :
       (/\ pc[w] = "run" /\ wk[w].pl.at = "resolved" /\ wk'[w].pl.at # "resolved"
        /\ ~env.interactive) =>
         LET best == wk[w].pl.candidates[1] IN
         IF best.confidence < LowConfidence
           THEN /\ wk'[w].pl.at \in {"raised", "next_entry"}
                /\ "Download" \notin wk'[w].pl.entered
                /\ wk'[w].pl.download_url = None
                /\ IF wk[w].pl.in_collection
                     THEN /\ wk'[w].pl.failures # <<>>
                          /\ wk'[w].pl.failures[Len(wk'[w].pl.failures)].stage = "Resolve"
                     ELSE /\ LastIsResolve(wk'[w], FALSE)
                          /\ wk'[w].result.kind = "error"
                          /\ wk'[w].result.stage = "Resolve"
           ELSE /\ wk'[w].pl.at = "download"
                /\ wk'[w].pl.download_url = best.url
                /\ \A i \in 2..Len(wk[w].pl.candidates) :
                     wk[w].pl.candidates[i].confidence <= best.confidence
                /\ wk'[w].result.kind = "none"]_vars

\* a download is under way with the URL of the better of two candidates, the
\* one the search listed second
C13_Witness ==
  \E w \in PoolThreads :
    /\ pc[w] = "run"
    /\ wk[w].pl.at = "download"
    /\ ~env.interactive
    /\ Len(wk[w].pl.candidates) = 2
    /\ wk[w].pl.download_url = <<"url", "x2">>
    /\ wk[w].pl.candidates[1].confidence = LowConfidence

UiLevels == {"quiet", "normal", "verbose", "debug"}

\* C14: no worker ever waits in the candidate prompt; for every confidence and
\* either value of `interactive`, a quiet or paths-only run never decides to
\* prompt and treats a low-confidence best match as fatal; and in the workers
\* a run asked to be interactive, or holding a low-confidence best match,
\* leaves Resolve by failing.
C14_NeverPrompts ==
  /\ [](/\ \A w \in PoolThreads : wk[w].pl.at # "prompt"
        /\ \A confidence \in {LowConfidence - 1, LowConfidence}, interactive \in BOOLEAN,
              level \in UiLevels, print_path_only \in BOOLEAN :
             (level = "quiet" \/ print_path_only) =>
               LET d == ResolveDecision(confidence, interactive, level, print_path_only)
               IN /\ d # "prompt"
                  /\ confidence < LowConfidence => d \in {"low", "refused"}
                  /\ interactive => d = "refused")
  /\ [][\A w \in PoolThreads :
          (/\ pc[w] = "run" /\ wk[w].pl.at = "resolved" /\ wk'[w].pl.at # "resolved"
           /\ (env.interactive \/ wk[w].pl.candidates[1].confidence < LowConfidence)) =>
            /\ wk'[w].pl.at \in {"raised", "next_entry"}
            /\ LastIsResolve(wk'[w], FALSE)
            /\ ~wk[w].pl.in_collection => wk'[w].result.stage = "Resolve"]_vars

\* a worker asked to be interactive has refused to prompt and failed the run
C14_Witness ==
  \E w \in PoolThreads :
    /\ env.interactive
    /\ wk[w].pl.at = "raised"
    /\ LastIsResolve(wk[w], FALSE)
    /\ wk[w].result.message = "Interactive mode is not available with --quiet/--print-path."

Range(q) == {q[i] : i \in 1..Len(q)}

\* C15: when _run_collection ends for a collection of N >= 1 sub-items of
\* which k failed, every sub-item is either saved or failed; k = 0 returns
\* the N saved paths; 0 < k < N raises PartialSuccessError carrying exactly
\* the N - k saved paths and k failure tuples (sub-item URL, message, stage);
\* k = N raises an error that is not PartialSuccessError and carries no path.
C15_CollectionOutcome ==
  \A w \in PoolThreads :
    LET pl == wk[w].pl
        res == wk[w].result
        N == Len(pl.item.entries)
        k == Len(pl.failures)
        urls == {pl.item.entries[i].url : i \in 1..N}
    IN
    (pc[w] = "run" /\ IsCollection(pl.item) /\ pl.at = "returned" /\ N >= 1) =>
      /\ Len(pl.saved) + k = N
      /\ Range(pl.saved) \cup {f.url : f \in Range(pl.failures)} = urls
      /\ k = 0 => (res.kind = "ok" /\ res.paths = pl.saved /\ Len(res.paths) = N)
      /\ (0 < k /\ k < N) =>
           /\ res.kind = "partial"
           /\ res.paths = pl.saved /\ Len(res.paths) = N - k
           /\ res.failures = pl.failures /\ Len(res.failures) = k
           /\ \A f \in Range(res.failures) : f.message # None
      /\ k = N => (res.kind = "error" /\ res.paths = <<>> /\ res.failures = <<>>)

\* a collection of two ended with one sub-item saved and the other failed
C15_Witness ==
  \E w \in PoolThreads :
    /\ pc[w] = "run"
    /\ wk[w].pl.at = "returned"
    /\ Len(wk[w].pl.item.entries) = 2
    /\ wk[w].result.kind = "partial"
    /\ Len(wk[w].result.paths) = 1
    /\ Len(wk[w].result.failures) = 1

\* C16: when run_download ends a collection in PartialSuccessError, the
\* worker that finishes the item keeps the saved paths in the item's paths
\* and publishes them (the published message is not a bare error).
C16_PartialKeepsPaths ==
  [][\A w \in PoolThreads :
       (pc[w] = "run" /\ wk[w].result.kind = "partial" /\ wk'[w] = NoWork) =>
         /\ items'[wk[w].item_id].paths = wk[w].result.paths
         /\ pmsg'[w].type # "error"]_vars

\* C17: ItemState.paths is empty while the status is queued or running, and
\* once the status is done or error the paths never change.
C17_PathsOnlyWhenTerminal ==
  /\ [](\A id \in DOMAIN items :
          items[id].status \in {"queued", "running"} => items[id].paths = <<>>)
  /\ [][\A id \in DOMAIN items :
          items[id].status \in {"done", "error"} =>
            /\ id \in DOMAIN items'
            /\ items'[id].paths = items[id].paths]_vars

\* an item is done with its path while its worker already runs the next item
C17_Witness ==
  \E id \in DOMAIN items, w \in PoolThreads :
    /\ items[id].status = "done"
    /\ items[id].paths # <<>>
    /\ pc[w] = "run"
    /\ wk[w].item_id # id
    /\ items[wk[w].item_id].status = "running"

\* C18: the key set of ItemState.steps never shrinks, and a step of
\* _record_step changes the entry of its own label only, to the outcome it
\* was called with.
C18_StepsOnlyGrow ==
  [][\A id \in DOMAIN items :
       /\ id \in DOMAIN items'
       /\ DOMAIN items[id].steps \subseteq DOMAIN items'[id].steps
       /\ \A w \in PoolThreads :
            (Pending(w, "step") /\ wk[w].item_id = id /\ wk'[w] # wk[w]) =>
              LET c == Head(wk[w].calls) IN
              /\ DOMAIN items'[id].steps = DOMAIN items[id].steps \cup {c.label}
              /\ items'[id].steps[c.label] = [ok |-> c.ok, detail |-> c.detail]
              /\ \A l \in DOMAIN items[id].steps \ {c.label} :
                   items'[id].steps[l] = items[id].steps[l]]_vars

\* the second sub-item of a collection has overwritten the Saved entry that
\* the first one wrote, next to the entries of the other labels
C18_Witness ==
  \E id \in DOMAIN items :
    /\ {"Metadata", "Download", "Tagging", "Saved"} \subseteq DOMAIN items[id].steps
    /\ \E w \in PoolThreads :
         /\ pc[w] = "run"
         /\ wk[w].item_id = id
         /\ wk[w].pl.in_collection
         /\ Len(wk[w].pl.saved) = 2
         /\ items[id].steps["Saved"].detail = wk[w].pl.saved[2]


\* ----- resolver.py: resolve_candidates, one step per check or search ---------
Titles == {None, "", "title"}
Limits == {0, 1, ResolveLimit}
ItemProviders == {"spotify", "youtube"}
Preferred == {"youtube", "soundcloud", "unknown"}

\* the calls of resolve_candidates(item, preferred=..., limit=...) and of
\* resolve(item, preferred=...)
ResolveCalls ==
  { [NoResolve EXCEPT !.at = "call", !.fn = "resolve_candidates",
                      !.item_provider = ip, !.title = t,
                      !.isrc = isrc, !.preferred = pf, !.limit = l] :
      ip \in ItemProviders, t \in Titles, isrc \in BOOLEAN,
      pf \in Preferred, l \in Limits }
  \cup
  { [NoResolve EXCEPT !.at = "resolve", !.fn = "resolve",
                      !.item_provider = ip, !.title = t,
                      !.isrc = isrc, !.preferred = pf] :
      ip \in ItemProviders, t \in Titles, isrc \in BOOLEAN, pf \in Preferred }

\* the hits one extract_info adds to `entries`
Hits(n) == UNION { [1..k -> SearchEntries] : k \in 0..n }

Resolving(w, at) == pc[w] = "run" /\ wk[w].pl.rs.at = at

ResolveStep(w, rs) ==
  /\ wk' = [wk EXCEPT ![w].pl.rs = rs]
  /\ UNCHANGED <<parallel, env, files, closed, id_counter, items, work, subscribers, queues,
                 pc, pmsg, ptargets, pret, rq, sse, lastGot, npub, emptyPub>>

\* raise ResolveError(message, stage="Resolve")
ResolveRaise(rs, message) ==
  [rs EXCEPT !.at = "raised", !.error = Error(message, "Resolve")]

SearchFailedYouTube(provider) == "YouTube search failed"

\* label = "YouTube" if provider == Provider.YOUTUBE else "SoundCloud";
\* f"{label} search failed: {e}"
SearchFailed(provider) ==
  IF provider = "youtube" THEN "YouTube search failed" ELSE "SoundCloud search failed"

\* the if-chain of resolve and of resolve_candidates: the provider of the
\* item, then the backend `preferred` names; `at` is where the chosen
\* backend goes on
DispatchYouTube(rs, at) ==
  IF rs.item_provider # "spotify"
    THEN ResolveRaise(rs, "Resolver is only used for Spotify items in v1.")
    ELSE [rs EXCEPT !.at = at, !.provider = "youtube"]
Dispatch(rs, at) ==
  IF rs.item_provider # "spotify"
    THEN ResolveRaise(rs, "Resolver is only used for Spotify items in v1.")
  ELSE IF rs.preferred = "youtube"
    THEN [rs EXCEPT !.at = at, !.provider = "youtube"]
  ELSE IF rs.preferred = "soundcloud"
    THEN [rs EXCEPT !.at = at, !.provider = "soundcloud"]
  ELSE ResolveRaise(rs, "Unsupported resolver provider")

\* resolve: _resolve_spotify_to_youtube / _resolve_spotify_to_soundcloud call
\* resolve_candidates(item, preferred=<that backend>, limit=5), the backend
\* being the value of `preferred` that selected the helper
ResolveCall(w) ==
  LET rs == wk[w].pl.rs IN
  /\ Resolving(w, "resolve")
  /\ ResolveStep(w, [Dispatch(rs, "call") EXCEPT !.limit = 5])

\* resolve_candidates: the provider of the item, then the backend
ResolveCandidatesCall(w) ==
  LET rs == wk[w].pl.rs IN
  /\ Resolving(w, "call")
  /\ ResolveStep(w, Dispatch(rs, "from_search"))

\* _resolve_candidates_from_search up to the search loop: the title check,
\* then one query with the ISRC, if there is one, and one without
FromSearchEnter(w) ==
  LET rs == wk[w].pl.rs IN
  /\ Resolving(w, "from_search")
  /\ ResolveStep(w,
       IF Missing(rs.title)
         THEN ResolveRaise(rs, "Spotify item is missing title; cannot resolve.")
         ELSE [rs EXCEPT !.at = "search", !.queries = IF rs.isrc THEN 2 ELSE 1])

\* info = ydl.extract_info(search, download=False); entries.extend(...)
ExtractInfo(w, hits) ==
  LET rs == wk[w].pl.rs IN
  /\ Resolving(w, "search")
  /\ rs.queries > 0
  /\ Len(rs.entries) + Len(hits) <= MaxSearch
  /\ ResolveStep(w, [rs EXCEPT !.entries = @ \o hits, !.searches = @ + 1,
                               !.queries = @ - 1])

\* extract_info raises: `except Exception` turns it into ResolveError
ExtractInfoRaises(w) ==
  LET rs == wk[w].pl.rs IN
  /\ Resolving(w, "search")
  /\ rs.queries > 0
  /\ ResolveStep(w, [ResolveRaise(rs, SearchFailed(rs.provider))
                       EXCEPT !.searches = @ + 1])

\* after the loop: dedupe, score, sort, cut
RankCandidates(w) ==
  LET rs == wk[w].pl.rs IN
  /\ Resolving(w, "search")
  /\ rs.queries = 0
  /\ ResolveStep(w, [rs EXCEPT !.at = "returned",
                               !.out = Ranked(rs.provider, rs.entries, rs.limit)])

\* back in _resolve_spotify_to_*: `if not candidates: raise`, else
\* candidates[0]
NoCandidates(provider) ==
  IF provider = "youtube" THEN "No YouTube candidates found."
                          ELSE "No SoundCloud candidates found."
ResolveReturn(w) ==
  LET rs == wk[w].pl.rs IN
  /\ Resolving(w, "returned")
  /\ rs.fn = "resolve"
  /\ ResolveStep(w,
       IF rs.out = <<>>
         THEN [rs EXCEPT !.at = "no_candidates",
                         !.error = Error(NoCandidates(rs.provider), "Resolve")]
         ELSE [rs EXCEPT !.at = "resolved", !.out = <<rs.out[1]>>])

\* a worker calls resolve_candidates or resolve
InitResolve ==
  \E c \in ResolveCalls :
    /\ parallel = 1
    /\ env = [parallel |-> 1, requests |-> {}, observers |-> {}, urls |-> 0,
              callbacks |-> 0, interactive |-> FALSE, entries |-> 0, hooks |-> 0]
    /\ files = <<>>
    /\ closed = FALSE
    /\ id_counter = 1
    /\ items = [k \in {} |-> None]
    /\ work = <<>>
    /\ subscribers = {}
    /\ queues = [s \in Subscribers |-> <<>>]
    /\ pc = [t \in Threads |-> IF t = <<"pool", 1>> THEN "run" ELSE "idle"]
    /\ pmsg = [t \in Threads |-> NoMessage]
    /\ ptargets = [t \in Threads |-> {}]
    /\ pret = [t \in Threads |-> None]
    /\ rq = [t \in ReqThreads |-> NoRequest]
    /\ wk = [w \in PoolThreads |->
               IF w = <<"pool", 1>> THEN [NoWork EXCEPT !.pl.rs = c] ELSE NoWork]
    /\ sse = [s \in Subscribers |-> "idle"]
    /\ lastGot = [s \in Subscribers |-> [k \in {} |-> 0]]
    /\ npub = [k \in {} |-> 0]
    /\ emptyPub = FALSE

NextResolve ==
  \/ \E w \in PoolThreads : ResolveCandidatesCall(w)
  \/ \E w \in PoolThreads : FromSearchEnter(w)
  \/ \E w \in PoolThreads, hits \in Hits(MaxSearch) : ExtractInfo(w, hits)
  \/ \E w \in PoolThreads : ExtractInfoRaises(w)
  \/ \E w \in PoolThreads : RankCandidates(w)
  \/ \E w \in PoolThreads : ResolveCall(w)
  \/ \E w \in PoolThreads : ResolveReturn(w)

SpecResolve == InitResolve /\ [][NextResolve]_vars

\* ----- properties of the resolver ------------------------------------------
ResolveFrames == { wk[w].pl.rs : w \in PoolThreads }

\* C19: resolve_candidates on an item whose title is missing or empty ends in
\* ResolveError without one search call, for either backend and any limit.
C19_NoSearchWithoutTitle ==
  \A rs \in ResolveFrames :
    (rs.at # "off" /\ rs.title \in {None, ""}) =>
      /\ rs.searches = 0
      /\ rs.at \notin {"search", "returned"}
      /\ rs.out = <<>>

\* a Spotify item with an empty title has been refused by the SoundCloud backend
C19_Witness ==
  \E rs \in ResolveFrames :
    /\ rs.at = "raised"
    /\ rs.item_provider = "spotify"
    /\ rs.provider = "soundcloud"
    /\ rs.title = ""
    /\ rs.searches = 0

\* the index of the first search hit that carries this URL
FirstSeen(rs, url) ==
  CHOOSE i \in 1..Len(rs.entries) :
    /\ EntryUrl(rs.provider, rs.entries[i]) = url
    /\ \A j \in 1..(i - 1) : EntryUrl(rs.provider, rs.entries[j]) # url

\* C20: the list resolve_candidates returns is in non-increasing order of
\* confidence, and candidates of equal confidence are in the order in which
\* their URLs were first seen in the search results.
C20_SortedStable ==
  \A rs \in ResolveFrames :
    rs.at = "returned" =>
      \A i, j \in 1..Len(rs.out) :
        i < j =>
          /\ rs.out[i].confidence >= rs.out[j].confidence
          /\ rs.out[i].confidence = rs.out[j].confidence =>
               FirstSeen(rs, rs.out[i].url) < FirstSeen(rs, rs.out[j].url)

\* two candidates tie; the URL seen first was seen again later with the
\* score that makes the tie, and stays first
C20_Witness ==
  \E rs \in ResolveFrames :
    /\ rs.at = "returned"
    /\ Len(rs.out) = 2
    /\ rs.out[1].confidence = rs.out[2].confidence
    /\ Len(rs.entries) = 3
    /\ EntryUrl(rs.provider, rs.entries[1]) = rs.out[1].url
    /\ EntryUrl(rs.provider, rs.entries[3]) = rs.out[1].url
    /\ rs.entries[1].score # rs.entries[3].score


\* C21: the list resolve_candidates returns holds at most one candidate per
\* URL, and a candidate carries the score of the first raw hit with its URL.
C21_FirstHitWins ==
  \A rs \in ResolveFrames :
    rs.at = "returned" =>
      /\ \A i, j \in 1..Len(rs.out) : rs.out[i].url = rs.out[j].url => i = j
      /\ \A i \in 1..Len(rs.out) :
           rs.out[i].confidence = rs.entries[FirstSeen(rs, rs.out[i].url)].score


\* ----- resolver.py: _score_candidate -------------------------------------------
\* scores are counted in units of 1/30000, in which the weights, a similarity
\* in hundredths and a duration score in thirtieths are all whole numbers
ScoreOne == 30000
MaxScoreCalls == 2

\* difflib ratios of the normalised texts, in hundredths
Sims == {0, 23, 24, 63, 100}
ArtistSims == {0, 40, 100}
ArtistFields == {"channel", "uploader", "title"}

\* an absent duration, and one of so many seconds
NoDuration == <<>>
Seconds(n) == <<n>>

\* what _score_candidate reads of (item, candidate): the similarity of the
\* titles, whether item.artist is set, its similarity to and containment in
\* the candidate's channel, uploader and title, the two durations, the ISRC
\* and whether it occurs in the candidate's text
Pairs ==
  [title_sim : Sims, has_artist : BOOLEAN,
   artist_sim : [ArtistFields -> ArtistSims], artist_in : SUBSET ArtistFields,
   duration_seconds : {NoDuration, Seconds(180)},
   duration : {NoDuration, Seconds(150), Seconds(179), Seconds(180), Seconds(215)},
   isrc : {None, "isrc"}, isrc_in_text : BOOLEAN]

\* _contains: 1.0 or 0.0
Contains(p, f) == IF f \in p.artist_in THEN 100 ELSE 0

RECURSIVE MaxOf(_)
MaxOf(S) ==
  IF S = {} THEN 0
  ELSE LET x == CHOOSE x \in S : TRUE IN Max(x, MaxOf(S \ {x}))

\* `if expected_artist: artist_score = max(...) else: artist_score = 0.0`
ArtistScore(p) ==
  IF p.has_artist
    THEN MaxOf({p.artist_sim[f] : f \in ArtistFields} \cup
               {Contains(p, f) : f \in ArtistFields})
    ELSE 0

Abs(n) == IF n < 0 THEN 0 - n ELSE n

DurationScoreWide(delta) == Max(0, 60 - delta) \div 2

\* max(0.0, 1.0 - (delta / 30.0)), in thirtieths
DurationScore(delta) == Max(0, 30 - delta)

BlendTitleInverted(t, a, d) == (135 * (100 - t)) + (105 * a) + (200 * d)

\* (0.45 * title_score) + (0.35 * artist_score) + (0.20 * duration_score)
Blend(t, a, d) == (135 * t) + (105 * a) + (200 * d)

\* (0.7 * title_score) + (0.3 * artist_score)
BlendNoDuration(t, a) == (210 * t) + (90 * a)

\* `base`, before the ISRC bonus
Base(p) ==
  IF p.duration_seconds = NoDuration \/ p.duration = NoDuration
    THEN BlendNoDuration(p.title_sim, ArtistScore(p))
    ELSE Blend(p.title_sim, ArtistScore(p),
               DurationScore(Abs(p.duration_seconds[1] - p.duration[1])))

\* `if isrc: ... if isrc.lower() in hay: base += 0.15`
Bonus(p) == IF p.isrc # None /\ p.isrc_in_text THEN 4500 ELSE 0

ScoreCandidateUnclamped(p) == Base(p) + Bonus(p)

\* return min(1.0, base)
ScoreCandidate(p) == Min(ScoreOne, Base(p) + Bonus(p))

\* one call of _score_candidate on the pair of the frame
ScoreCall(w) ==
  LET sc == wk[w].pl.sc IN
  /\ pc[w] = "run"
  /\ sc.pairs # <<>>
  /\ Len(sc.scores) < MaxScoreCalls
  /\ wk' = [wk EXCEPT ![w].pl.sc.scores = Append(@, ScoreCandidate(sc.pairs[1]))]
  /\ UNCHANGED <<parallel, env, files, closed, id_counter, items, work, subscribers, queues,
                 pc, pmsg, ptargets, pret, rq, sse, lastGot, npub, emptyPub>>

\* a worker scores one search hit against the wanted item
InitScore ==
  \E p \in Pairs :
    /\ parallel = 1
    /\ env = [parallel |-> 1, requests |-> {}, observers |-> {}, urls |-> 0,
              callbacks |-> 0, interactive |-> FALSE, entries |-> 0, hooks |-> 0]
    /\ files = <<>>
    /\ closed = FALSE
    /\ id_counter = 1
    /\ items = [k \in {} |-> None]
    /\ work = <<>>
    /\ subscribers = {}
    /\ queues = [s \in Subscribers |-> <<>>]
    /\ pc = [t \in Threads |-> IF t = <<"pool", 1>> THEN "run" ELSE "idle"]
    /\ pmsg = [t \in Threads |-> NoMessage]
    /\ ptargets = [t \in Threads |-> {}]
    /\ pret = [t \in Threads |-> None]
    /\ rq = [t \in ReqThreads |-> NoRequest]
    /\ wk = [w \in PoolThreads |->
               IF w = <<"pool", 1>> THEN [NoWork EXCEPT !.pl.sc.pairs = <<p>>] ELSE NoWork]
    /\ sse = [s \in Subscribers |-> "idle"]
    /\ lastGot = [s \in Subscribers |-> [k \in {} |-> 0]]
    /\ npub = [k \in {} |-> 0]
    /\ emptyPub = FALSE

NextScore == \E w \in PoolThreads : ScoreCall(w)

SpecScore == InitScore /\ [][NextScore]_vars

\* ----- properties of the scoring -----------------------------------------------
ScoreFrames ==
  { [pair |-> wk[w].pl.sc.pairs[1], scores |-> wk[w].pl.sc.scores] :
      w \in { v \in PoolThreads : wk[v].pl.sc.pairs # <<>> } }

C23_MonotoneInTitle ==
  \A sc \in ScoreFrames :
    sc.scores # <<>> =>
      \A t \in Sims :
        t >= sc.pair.title_sim =>
          ScoreCandidate([sc.pair EXCEPT !.title_sim = t]) >= sc.scores[1]

\* a scored pair with both durations whose score is below 1.0 and reaches the
\* clamp when the titles match fully
C23_Witness ==
  \E sc \in ScoreFrames :
    /\ sc.scores # <<>>
    /\ sc.pair.duration_seconds # NoDuration
    /\ sc.pair.duration # NoDuration
    /\ sc.pair.title_sim < 100
    /\ sc.scores[1] < ScoreOne
    /\ Base([sc.pair EXCEPT !.title_sim = 100]) + Bonus(sc.pair) > ScoreOne


\* the wanted item of the pair against a candidate with a perfect title, the
\* same duration, no artist match and the same ISRC bonus
PerfectTitleNoArtist(p) ==
  [p EXCEPT !.title_sim = 100, !.artist_sim = [f \in ArtistFields |-> 0],
            !.artist_in = {}, !.duration = p.duration_seconds]

\* an exact artist match and a duration one second off
ExactArtistOneSecondOff(p) ==
  /\ ArtistScore(p) = 100
  /\ p.duration_seconds # NoDuration
  /\ p.duration # NoDuration
  /\ Abs(p.duration_seconds[1] - p.duration[1]) = 1

\* min(1, 0.45 t + 0.35 a + 0.20 d + bonus) with d = max(0, 1 - delta/30) when
\* both durations are known, min(1, 0.7 t + 0.3 a + bonus) otherwise
ClaimedScore(p) ==
  LET t == p.title_sim
      a == IF p.has_artist THEN ArtistScore(p) ELSE 0
      bonus == IF p.isrc # None /\ p.isrc_in_text THEN (15 * ScoreOne) \div 100 ELSE 0
      known == p.duration_seconds # NoDuration /\ p.duration # NoDuration
      delta == IF known THEN Abs(p.duration_seconds[1] - p.duration[1]) ELSE 0
      d == IF delta >= 30 THEN 0 ELSE 30 - delta
      sum == IF known
               THEN ((45 * ScoreOne * t) \div 10000) + ((35 * ScoreOne * a) \div 10000)
                    + ((20 * ScoreOne * d) \div 3000) + bonus
               ELSE ((70 * ScoreOne * t) \div 10000) + ((30 * ScoreOne * a) \div 10000)
                    + bonus
  IN IF sum > ScoreOne THEN ScoreOne ELSE sum

C25_EmptyIsNotAnError ==
  \A rs \in ResolveFrames :
    /\ (rs.at = "returned" /\ rs.entries = <<>>) =>
         (rs.out = <<>> /\ rs.error = NoResult)
    /\ (rs.at = "search" /\ rs.queries = 0) => rs.error = NoResult
    /\ (rs.at = "raised" /\ rs.searches > 0) =>
         /\ rs.error.stage = "Resolve"
         /\ rs.preferred = "youtube" => rs.error.message = "YouTube search failed"
         /\ rs.preferred = "soundcloud" => rs.error.message = "SoundCloud search failed"
    /\ rs.at = "raised" => rs.error.stage = "Resolve"

\* both queries of a SoundCloud search ran and found nothing: the empty
\* list is returned
C25_Witness ==
  \E rs \in ResolveFrames :
    /\ rs.at = "returned"
    /\ rs.provider = "soundcloud"
    /\ rs.searches = 2
    /\ rs.entries = <<>>
    /\ rs.out = <<>>


\* ----- paths.py, downloader.py: the final path of a download -------------------
RangeEnd == 10000
MaxSaves == 2

\* the stems build_output_plan gives the items of this model
Stems == {"a", "b"}

\* output_plan.final_path, and parent / f"{stem} ({i}){suffix}"
Planned(stem) == <<stem, 0>>
Numbered(stem, i) == <<stem, i>>

\* the free numbers of `for i in range(1, 10_000)`
FreeNumbers(exists, stem) == {i \in 1..(RangeEnd - 1) : Numbered(stem, i) \notin exists}

EnsureUniquePathPlanned(exists, path) == path

\* ensure_unique_path: the path itself when it does not exist, else the first
\* free numbered name, else RuntimeError
EnsureUniquePath(exists, path) ==
  IF path \notin exists THEN path
  ELSE IF FreeNumbers(exists, path[1]) # {}
    THEN Numbered(path[1], CHOOSE i \in FreeNumbers(exists, path[1]) :
                             \A j \in FreeNumbers(exists, path[1]) : i <= j)
  ELSE <<"RuntimeError", 0>>

Saving(w, at) == pc[w] = "run" /\ wk[w].pl.sv.at = at

SaveStep(w, sv) ==
  /\ wk' = [wk EXCEPT ![w].pl.sv = sv]
  /\ UNCHANGED <<parallel, env, closed, id_counter, items, work, subscribers,
                 queues, pc, pmsg, ptargets, pret, rq, sse, lastGot, npub, emptyPub>>

\* download_with_ytdlp is entered for an item with this stem:
\* final_path = ensure_unique_path(output_plan.final_path)
DownloadEnter(w, stem) ==
  LET sv == wk[w].pl.sv
      path == EnsureUniquePath(DOMAIN files, Planned(stem))
  IN
  /\ Saving(w, "plan")
  /\ sv.n < MaxSaves
  /\ SaveStep(w, IF path[1] = "RuntimeError"
                   THEN [sv EXCEPT !.n = @ + 1]
                   ELSE [sv EXCEPT !.at = "download", !.stem = stem,
                                   !.final_path = path, !.seen = DOMAIN files])
  /\ UNCHANGED files

\* yt-dlp raises or leaves no output file: DownloadError, nothing is moved
DownloadFails(w) ==
  /\ Saving(w, "download")
  /\ SaveStep(w, [wk[w].pl.sv EXCEPT !.at = "plan", !.n = @ + 1, !.seen = {},
                                     !.final_path = <<>>, !.stem = None])
  /\ UNCHANGED files

\* shutil.move(str(downloaded), str(final_path)): whatever is at final_path
\* is replaced
MoveIntoPlace(w) ==
  LET sv == wk[w].pl.sv IN
  /\ Saving(w, "download")
  /\ files' = [p \in DOMAIN files \cup {sv.final_path} |->
                 IF p = sv.final_path THEN <<w[2], sv.n + 1>> ELSE files[p]]
  /\ SaveStep(w, [sv EXCEPT !.at = "plan", !.n = @ + 1, !.seen = {},
                            !.final_path = <<>>, !.stem = None,
                            !.saved = Append(@, sv.final_path)])

\* the files that are in the output directory before the web host starts
OldFiles ==
  { [p \in S |-> <<0, 0>>] : S \in {{}, {Planned("a")}, {Planned("a"), Numbered("a", 1)}} }

\* the workers of the pool are inside run_download, about to download
InitSave ==
  \E old \in OldFiles :
    /\ parallel = MaxParallel
    /\ env = [parallel |-> MaxParallel, requests |-> {}, observers |-> {}, urls |-> 0,
              callbacks |-> 0, interactive |-> FALSE, entries |-> 0, hooks |-> 0]
    /\ files = old
    /\ closed = FALSE
    /\ id_counter = 1
    /\ items = [k \in {} |-> None]
    /\ work = <<>>
    /\ subscribers = {}
    /\ queues = [s \in Subscribers |-> <<>>]
    /\ pc = [t \in Threads |-> IF t \in PoolThreads THEN "run" ELSE "idle"]
    /\ pmsg = [t \in Threads |-> NoMessage]
    /\ ptargets = [t \in Threads |-> {}]
    /\ pret = [t \in Threads |-> None]
    /\ rq = [t \in ReqThreads |-> NoRequest]
    /\ wk = [w \in PoolThreads |-> [NoWork EXCEPT !.pl.sv.at = "plan"]]
    /\ sse = [s \in Subscribers |-> "idle"]
    /\ lastGot = [s \in Subscribers |-> [k \in {} |-> 0]]
    /\ npub = [k \in {} |-> 0]
    /\ emptyPub = FALSE

NextSave ==
  \/ \E w \in PoolThreads, stem \in Stems : DownloadEnter(w, stem)
  \/ \E w \in PoolThreads : DownloadFails(w)
  \/ \E w \in PoolThreads : MoveIntoPlace(w)

SpecSave == InitSave /\ [][NextSave]_vars

\* ----- properties of the final path ---------------------------------------------
\* C26: the path ensure_unique_path returns did not exist when it was chosen:
\* it is the planned path when that was free, else the numbered name with the
\* least free number from 1; so the paths one worker saves to, one download
\* after the other, are pairwise distinct.
C26_UniquePath ==
  \A w \in PoolThreads :
    LET sv == wk[w].pl.sv IN
    /\ sv.at = "download" =>
         /\ sv.final_path \notin sv.seen
         /\ Planned(sv.stem) \notin sv.seen => sv.final_path = Planned(sv.stem)
         /\ Planned(sv.stem) \in sv.seen =>
              \E i \in 1..(Cardinality(sv.seen) + 1) :
                /\ sv.final_path = Numbered(sv.stem, i)
                /\ \A j \in 1..(i - 1) : Numbered(sv.stem, j) \in sv.seen
    /\ \A i, j \in 1..Len(sv.saved) : i # j => sv.saved[i] # sv.saved[j]

\* the planned path and its first numbered name were taken from the start; a
\* worker saved the same item twice, to "a (2)" and then to "a (3)"
C26_Witness ==
  \E w \in PoolThreads :
    /\ wk[w].pl.sv.saved = <<Numbered("a", 2), Numbered("a", 3)>>
    /\ files[Planned("a")] = <<0, 0>>
    /\ files[Numbered("a", 1)] = <<0, 0>>

\* C27: no step replaces a file that is already saved: every path that holds a
\* file keeps that file, whatever the interleaving of the workers.
C27_NoOverwrite ==
  [][\A p \in DOMAIN files : p \in DOMAIN files' /\ files'[p] = files[p]]_vars


\* C28: two successive progress callbacks of one download are at least the
\* minimum interval apart, whether they come from downloading ticks or from
\* the finished callback.
C28_ProgressSpacing ==
  \A w \in PoolThreads :
    wk[w].pl.at = "download" => wk[w].pl.sep >= ProgressInterval


\* ----- DownloadManager.shutdown ----------------------------------------------
ShutdownCancelling ==
  /\ ~closed
  /\ closed' = TRUE
  /\ work' = <<>>
  /\ UNCHANGED <<parallel, env, files, id_counter, items, subscribers,
                 queues, pc, pmsg, ptargets, pret, rq, wk, sse, lastGot, npub,
                 emptyPub>>

\* self._executor.shutdown(wait=False, cancel_futures=False): queued and
\* running work goes on, later submits are refused
Shutdown ==
  /\ ~closed
  /\ closed' = TRUE
  /\ UNCHANGED <<parallel, env, files, id_counter, items, work, subscribers,
                 queues, pc, pmsg, ptargets, pret, rq, wk, sse, lastGot, npub,
                 emptyPub>>

\* one request thread, one observer and one worker around the shutdown
ShutdownDeployments ==
  [parallel : {1}, requests : {{"r1"}}, observers : {{"s1"}},
   urls : {MaxItems}, callbacks : {0}, interactive : {FALSE},
   entries : {0}, hooks : {0}]

InitShutdown == \E d \in ShutdownDeployments : Boot(d)

NextShutdown ==
  \/ \E t \in ReqThreads, urls \in UrlLists : EnqueueCall(t, urls)
  \/ \E t \in ReqThreads : EnqueueNextId(t)
  \/ \E t \in ReqThreads : EnqueueInsert(t)
  \/ \E t \in ReqThreads : EnqueueSubmit(t)
  \/ \E t \in ReqThreads : EnqueueReturn(t)
  \/ \E t \in Threads : PublishSnapshot(t)
  \/ \E t \in Threads : PublishPut(t)
  \/ \E s \in Subscribers : Subscribe(s)
  \/ \E s \in Subscribers : SseGet(s)
  \/ \E s \in Subscribers : SseDisconnect(s)
  \/ \E w \in PoolThreads : RunStart(w)
  \/ \E w \in PoolThreads : RecordStatus(w)
  \/ \E w \in PoolThreads, res \in SampleResults : PipelineEnd(w, res)
  \/ Shutdown

SpecShutdown == InitShutdown /\ [][NextShutdown]_vars

\* C29: once shutdown() has been called no enqueue registers a new ItemState
\* or publishes a queued event.
C29_NoWorkAfterShutdown ==
  [][\A t \in ReqThreads :
       (rq[t].late /\ pc'[t] # pc[t]) =>
         /\ DOMAIN items' = DOMAIN items
         /\ pmsg'[t] # pmsg[t] => pmsg'[t].type # "queued"]_vars


\* ----- WebHandler._handle_enqueue, urls.py -------------------------------------
\* a string as urlparse reads it: the scheme before ":", the host of the
\* netloc after "//", the segments of the path between "/", the query after
\* "?" and the fragment after "#"; pad tells that white space surrounds it
Text(pad, scheme, host, path, query, fragment) ==
  [pad |-> pad, scheme |-> scheme, host |-> host, path |-> path,
   query |-> query, fragment |-> fragment]

\* the empty string, and a string without "//", ":", "?" or "#"
EmptyText == Text(FALSE, "", "", <<>>, "", "")
Plain(word) == Text(FALSE, "", "", <<word>>, "", "")

\* _TWITTER_HOSTS
TwitterHosts ==
  {"twitter.com", "www.twitter.com", "mobile.twitter.com",
   "x.com", "www.x.com", "mobile.x.com"}

\* str.strip()
Strip(text) == [text EXCEPT !.pad = FALSE]

\* str.lower() on the host names of this model
Lower(host) ==
  IF host = "X.com" THEN "x.com"
  ELSE IF host = "Mobile.Twitter.com" THEN "mobile.twitter.com"
  ELSE host

\* host = (parsed.hostname or "").lower()
Hostname(text) == Lower(text.host)

\* the longest prefix of digits of a path segment of this model (\d+ is greedy)
Digits(segment) ==
  IF segment = "123" THEN "123"
  ELSE IF segment = "45x" THEN "45"
  ELSE ""

\* re.search(r"/status/(\d+)", path): the positions where it matches, and the
\* group of the leftmost match (<<>> when there is none); a path behind a host
\* starts with "/", a path without host and scheme need not
StatusMatches(text) ==
  { i \in 1..(Len(text.path) - 1) :
      /\ text.path[i] = "status"
      /\ Digits(text.path[i + 1]) # ""
      /\ (i > 1 \/ text.host # "" \/ text.scheme # "") }
StatusId(text) ==
  IF StatusMatches(text) = {} THEN <<>>
  ELSE LET i == CHOOSE j \in StatusMatches(text) :
                  \A k \in StatusMatches(text) : j <= k
       IN <<Digits(text.path[i + 1])>>

\* re.search(r"/i/status/(\d+)", path), tried when the first search fails
IStatusMatches(text) ==
  { i \in 1..(Len(text.path) - 2) :
      /\ text.path[i] = "i"
      /\ text.path[i + 1] = "status"
      /\ Digits(text.path[i + 2]) # ""
      /\ (i > 1 \/ text.host # "" \/ text.scheme # "") }
IStatusId(text) ==
  IF IStatusMatches(text) = {} THEN <<>>
  ELSE LET i == CHOOSE j \in IStatusMatches(text) :
                  \A k \in IStatusMatches(text) : j <= k
       IN <<Digits(text.path[i + 2])>>

\* f"https://twitter.com/i/status/{status_id}"
StatusUrl(status_id) ==
  Text(FALSE, "https", "twitter.com", <<"i", "status", status_id>>, "", "")

\* urlunparse(parsed._replace(scheme="https", netloc="twitter.com", query="",
\* fragment=""))
Replaced(raw) ==
  [raw EXCEPT !.scheme = "https", !.host = "twitter.com", !.query = "",
              !.fragment = ""]

\* normalize_url
NormalizeUrlReplaced(url) ==
  LET raw == Strip(url) IN
  IF raw = EmptyText THEN raw
  ELSE IF Hostname(raw) \in TwitterHosts THEN Replaced(raw)
  ELSE raw
NormalizeUrl(url) ==
  LET raw == Strip(url)
      match == IF StatusId(raw) # <<>> THEN StatusId(raw) ELSE IStatusId(raw)
  IN
  IF raw = EmptyText THEN raw
  ELSE IF Hostname(raw) \in TwitterHosts
    THEN IF match # <<>> THEN StatusUrl(match[1]) ELSE Replaced(raw)
  ELSE raw

\* an entry of the posted list: a string that names no file, the empty
\* string, or the path of an existing file with these lines
UrlArg(text) == [text |-> text, file |-> FALSE, lines |-> <<>>]
FileArg(text, lines) == [text |-> text, file |-> TRUE, lines |-> lines]

\* the posted lists of this model
Posts ==
  { <<>>,
    <<UrlArg(Plain("u1"))>>,
    <<UrlArg(Text(FALSE, "https", "x.com", <<"a", "status", "123">>, "s=20", "")),
      UrlArg(EmptyText)>>,
    <<UrlArg(Plain("u1")), UrlArg(Plain("u2"))>>,
    <<FileArg(Plain("list.txt"),
              <<Plain("u1"), EmptyText, Plain("# note"), Plain("u2")>>)>>,
    <<FileArg(Plain("empty.txt"), <<>>)>>,
    <<UrlArg(Plain("u1")), FileArg(Plain("one.txt"), <<Plain("u2")>>)>> }

\* urls = [u for u in urls if u]
NonEmpty(args) == SelectSeq(args, LAMBDA a : a.text # EmptyText)

\* _read_urls_file: every line is stripped; blank lines and comment lines
\* are skipped
IsUrlLine(line) == line # EmptyText /\ line # Plain("# note")
ReadUrlsFile(lines) ==
  SelectSeq([i \in 1..Len(lines) |-> Strip(lines[i])], IsUrlLine)

RECURSIVE Expanded(_)
Expanded(args) ==
  IF args = <<>> THEN <<>>
  ELSE (IF Head(args).file THEN ReadUrlsFile(Head(args).lines)
                           ELSE <<Head(args).text>>) \o Expanded(Tail(args))

\* expand_url_args: file arguments are replaced by their lines, then every
\* URL is normalised
ExpandUrlArgs(args) ==
  LET urls == Expanded(args) IN [i \in 1..Len(urls) |-> NormalizeUrl(urls[i])]

\* _handle_enqueue up to manager.enqueue(expand_url_args(urls)); the count of
\* the response is len(urls), kept for the response
HandleEnqueue(t, post) ==
  LET urls == NonEmpty(post) IN
  /\ pc[t] = "idle"
  /\ t[2] \in env.requests
  /\ Accepted(ReqThreads) + Len(ExpandUrlArgs(urls)) <= Min(env.urls, MaxItems)
  /\ rq' = [rq EXCEPT ![t] = [NoRequest EXCEPT !.urls = ExpandUrlArgs(urls),
                                               !.late = closed,
                                               !.queued = Len(urls)]]
  /\ pc' = [pc EXCEPT ![t] = IF ExpandUrlArgs(urls) = <<>> THEN "return" ELSE "next_id"]
  /\ UNCHANGED <<parallel, env, files, closed, id_counter, items, work, subscribers,
                 queues, pmsg, ptargets, pret, wk, sse, lastGot, npub, emptyPub>>

\* resp = json.dumps({"queued": len(urls)}) is written
HandleRespond(t) ==
  /\ pc[t] = "returned"
  /\ pc' = [pc EXCEPT ![t] = "responded"]
  /\ UNCHANGED <<parallel, env, files, closed, id_counter, items, work, subscribers,
                 queues, pmsg, ptargets, pret, rq, wk, sse, lastGot, npub, emptyPub>>

\* two request threads post to a host with one worker and no observer
HandlerDeployments ==
  [parallel : {1}, requests : {Requests}, observers : {{}},
   urls : {MaxItems}, callbacks : {0}, interactive : {FALSE},
   entries : {0}, hooks : {0}]

InitHandler == \E d \in HandlerDeployments : Boot(d)

NextHandler ==
  \/ \E t \in ReqThreads, post \in Posts : HandleEnqueue(t, post)
  \/ \E t \in ReqThreads : EnqueueNextId(t)
  \/ \E t \in ReqThreads : EnqueueInsert(t)
  \/ \E t \in ReqThreads : EnqueueSubmit(t)
  \/ \E t \in ReqThreads : EnqueueReturn(t)
  \/ \E t \in ReqThreads : HandleRespond(t)
  \/ \E t \in Threads : PublishSnapshot(t)
  \/ \E w \in PoolThreads : RunStart(w)
  \/ \E w \in PoolThreads : RecordStatus(w)
  \/ \E w \in PoolThreads, res \in SampleResults : PipelineEnd(w, res)

SpecHandler == InitHandler /\ [][NextHandler]_vars

\* C30: the count in the response of POST /enqueue is the number of
\* ItemStates the request created.
C30_CountIsAccepted ==
  \A t \in ReqThreads :
    pc[t] = "responded" => rq[t].queued = Len(rq[t].items)

\* ----- normalize_url on its own -------------------------------------------------
MaxPath == 3
MaxNormalize == 2
Segments == {"user", "status", "i", "123", "45x"}
Hosts == {"", "X.com", "Mobile.Twitter.com", "twitter.com", "example.com"}
Paths == UNION {[1..n -> Segments] : n \in 0..MaxPath}

\* the strings handed to normalize_url
Texts ==
  { Text(pad, scheme, host, path, query, fragment) :
      pad \in BOOLEAN, scheme \in {"", "http", "https"}, host \in Hosts,
      path \in Paths, query \in {"", "s=20"}, fragment \in {"", "top"} }

\* normalize_url(u) of line 26, applied to the last value of the frame
NormalizeCall(t) ==
  LET urls == rq[t].urls IN
  /\ pc[t] = "normalize"
  /\ Len(urls) <= MaxNormalize
  /\ rq' = [rq EXCEPT ![t].urls = Append(urls, NormalizeUrl(urls[Len(urls)]))]
  /\ UNCHANGED <<parallel, env, files, closed, id_counter, items, work, subscribers,
                 queues, pc, pmsg, ptargets, pret, wk, sse, lastGot, npub, emptyPub>>

\* one thread normalises one string
InitUrls ==
  \E u \in Texts :
    /\ parallel = 1
    /\ env = [parallel |-> 1, requests |-> {"r1"}, observers |-> {}, urls |-> 0,
              callbacks |-> 0, interactive |-> FALSE, entries |-> 0, hooks |-> 0]
    /\ files = <<>>
    /\ closed = FALSE
    /\ id_counter = 1
    /\ items = [k \in {} |-> None]
    /\ work = <<>>
    /\ subscribers = {}
    /\ queues = [s \in Subscribers |-> <<>>]
    /\ pc = [t \in Threads |-> IF t = <<"request", "r1">> THEN "normalize" ELSE "idle"]
    /\ pmsg = [t \in Threads |-> NoMessage]
    /\ ptargets = [t \in Threads |-> {}]
    /\ pret = [t \in Threads |-> None]
    /\ rq = [t \in ReqThreads |->
               IF t = <<"request", "r1">> THEN [NoRequest EXCEPT !.urls = <<u>>] ELSE NoRequest]
    /\ wk = [w \in PoolThreads |-> NoWork]
    /\ sse = [s \in Subscribers |-> "idle"]
    /\ lastGot = [s \in Subscribers |-> [k \in {} |-> 0]]
    /\ npub = [k \in {} |-> 0]
    /\ emptyPub = FALSE

NextUrls == \E t \in ReqThreads : NormalizeCall(t)

SpecUrls == InitUrls /\ [][NextUrls]_vars

\* the frames of normalize_url: the string given, its normal form and the
\* normal form of that
Normalized ==
  { rq[t].urls : t \in {r \in ReqThreads : pc[r] = "normalize" /\ Len(rq[r].urls) > 1} }

\* an absolute URL: a scheme, and no white space around it
IsUrl(text) == ~text.pad /\ text.scheme # ""

\* the path holds "/status/" followed by digits d
HasStatus(text, d) ==
  \E i \in 1..(Len(text.path) - 1) :
    text.path[i] = "status" /\ Digits(text.path[i + 1]) = d /\ d # ""

\* C31: normalize_url maps every Twitter/X URL whose path holds
\* /status/<digits>, whatever its recognised host, trailing path, query and
\* fragment, to https://twitter.com/i/status/<digits>; it returns the URLs of
\* every other host unchanged; and normalising a normal form changes nothing.
C31_NormalizeUrl ==
  \A f \in Normalized :
    /\ (IsUrl(f[1]) /\ Lower(f[1].host) \in TwitterHosts
          /\ \E d \in {"123", "45"} : HasStatus(f[1], d))
         => \E d \in {"123", "45"} :
              /\ HasStatus(f[1], d)
              /\ f[2] = Text(FALSE, "https", "twitter.com", <<"i", "status", d>>, "", "")
    /\ (IsUrl(f[1]) /\ Lower(f[1].host) \notin TwitterHosts) => f[2] = f[1]
    /\ Len(f) > 2 => f[3] = f[2]

\* a status link on x.com with a trailing path, a query and a fragment has
\* been normalised twice
C31_Witness ==
  \E f \in Normalized :
    /\ Len(f) > 2
    /\ f[1] = Text(FALSE, "https", "X.com", <<"user", "status", "123">>, "s=20", "top")
    /\ f[2] = StatusUrl("123")

\* C32: resolve and resolve_candidates take the backend from `preferred`
\* alone: with "youtube" or "soundcloud" every source they return has that
\* provider; with any other value, or an item that is not a Spotify item,
\* they end in ResolveError of stage Resolve and no search has been made.
C32_BackendIsPreferred ==
  \A rs \in ResolveFrames :
    /\ rs.at \in {"returned", "resolved"} =>
         /\ rs.preferred \in {"youtube", "soundcloud"}
         /\ \A i \in 1..Len(rs.out) : rs.out[i].provider = rs.preferred
    /\ rs.at \in {"from_search", "search"} => rs.provider = rs.preferred
    /\ (rs.at \notin {"off", "call", "resolve"}
          /\ (rs.item_provider # "spotify" \/ rs.preferred \notin {"youtube", "soundcloud"})) =>
         /\ rs.at = "raised"
         /\ rs.error.stage = "Resolve"
         /\ rs.searches = 0
         /\ rs.out = <<>>

\* resolve(item, preferred=SOUNDCLOUD) has returned the best of two
\* SoundCloud candidates
C32_Witness ==
  \E rs \in ResolveFrames :
    /\ rs.at = "resolved"
    /\ rs.fn = "resolve"
    /\ rs.preferred = "soundcloud"
    /\ Len(rs.entries) >= 2
    /\ rs.searches > 0
    /\ rs.out[1].provider = "soundcloud"


\* C33: in a single-item run every StepResult of the Download stage is
\* emitted before every post-process StepResult, and every post-process
\* StepResult before the Tagging one.
C33_DownloadBeforePostprocess ==
  \A w \in PoolThreads :
    LET ev == wk[w].pl.events
        rank(i) == StageRank(ev[i].label)
    IN
    SingleRun(w) =>
      \A i, j \in 1..Len(ev) :
        /\ (rank(i) = 3 /\ rank(j) = 0) => i < j
        /\ (rank(i) = 0 /\ rank(j) = 4) => i < j



\* ----- _run_single: the candidate prompt (pipeline.py 306-344) -----------------
\* what the user types at "Select [1]: "
RawInputs == {"", "  ", "1", "2", " 2 ", "3", "4", "0", "-1", "two", "1.5"}

\* str.strip() on these
StripInput(raw) == IF raw = "  " THEN "" ELSE IF raw = " 2 " THEN "2" ELSE raw

\* int(raw): the integer, or nothing when it raises ValueError
ParseInt(raw) ==
  IF raw = "0" THEN <<0>>
  ELSE IF raw = "1" THEN <<1>>
  ELSE IF raw = "2" THEN <<2>>
  ELSE IF raw = "3" THEN <<3>>
  ELSE IF raw = "4" THEN <<4>>
  ELSE IF raw = "-1" THEN <<0 - 1>>
  ELSE <<>>

\* selected = candidates[idx - 1] on a 0-based list
SelectedBest(candidates, idx) == candidates[1]
Selected(candidates, idx) == candidates[idx]

\* the answer to the prompt: empty keeps the best candidate, a number in
\* range takes that candidate, anything else fails Resolve
PromptInput(w, input) ==
  LET pl == [wk[w].pl EXCEPT !.raw = input]
      raw == StripInput(input)
      idx == ParseInt(raw)
      invalid == Error("Invalid selection.", "Resolve")
      range == Error("Selection out of range.", "Resolve")
      download(selected) ==
        Proceed(w, DownloadLocals([pl EXCEPT !.download_url = selected.url]),
                <<Call("step", "Resolve", TRUE, None),
                  Call("status", "Download: name", TRUE, None)>>, NoResult)
  IN
  /\ At(w, "prompt")
  /\ IF raw = "" THEN download(pl.candidates[1])
     ELSE IF idx = <<>>
       THEN Proceed(w, Raised(pl, invalid),
                    <<Call("step", "Resolve", FALSE, invalid.message)>>,
                    RaisedResult(pl, invalid))
     ELSE IF idx[1] < 1 \/ idx[1] > Len(pl.candidates)
       THEN Proceed(w, Raised(pl, range),
                    <<Call("step", "Resolve", FALSE, range.message)>>,
                    RaisedResult(pl, range))
     ELSE download(Selected(pl.candidates, idx[1]))

\* the rankings resolve_candidates can hand to the prompt
Rankings ==
  { Ranked(provider, hits, ResolveLimit) :
      provider \in {"youtube", "soundcloud"}, hits \in Hits(MaxSearch) } \ {<<>>}

\* _run_single of a run with interactive=True and a ui that may prompt, for
\* a Spotify track alone or as an entry of an album, waiting in
\* ui.console.input
PromptFrames ==
  { [NoPipe EXCEPT !.at = "prompt",
                   !.item = IF c THEN Item("spotify", "album", "u1",
                                           Entries("spotify", "track", 1))
                                 ELSE Item("spotify", "track", "u1", <<>>),
                   !.cur = IF c THEN Entries("spotify", "track", 1)[1]
                                ELSE Item("spotify", "track", "u1", <<>>),
                   !.in_collection = c,
                   !.entered = IF c THEN {"Resolve"} ELSE {"Metadata", "Resolve"},
                   !.events = IF c THEN <<>>
                                   ELSE <<Call("step", "Metadata", TRUE, None)>>,
                   !.candidates = r] :
      r \in Rankings, c \in BOOLEAN }

InitPrompt ==
  \E f \in PromptFrames :
    /\ parallel = 1
    /\ env = [parallel |-> 1, requests |-> {}, observers |-> {}, urls |-> 0,
              callbacks |-> 0, interactive |-> TRUE, entries |-> 1, hooks |-> 0]
    /\ files = <<>>
    /\ closed = FALSE
    /\ id_counter = 1
    /\ items = [k \in {} |-> None]
    /\ work = <<>>
    /\ subscribers = {}
    /\ queues = [s \in Subscribers |-> <<>>]
    /\ pc = [t \in Threads |-> IF t = <<"pool", 1>> THEN "run" ELSE "idle"]
    /\ pmsg = [t \in Threads |-> NoMessage]
    /\ ptargets = [t \in Threads |-> {}]
    /\ pret = [t \in Threads |-> None]
    /\ rq = [t \in ReqThreads |-> NoRequest]
    /\ wk = [w \in PoolThreads |->
               IF w = <<"pool", 1>> THEN [NoWork EXCEPT !.pl = f] ELSE NoWork]
    /\ sse = [s \in Subscribers |-> "idle"]
    /\ lastGot = [s \in Subscribers |-> [k \in {} |-> 0]]
    /\ npub = [k \in {} |-> 0]
    /\ emptyPub = FALSE

NextPrompt == \E w \in PoolThreads, input \in RawInputs : PromptInput(w, input)

SpecPrompt == InitPrompt /\ [][NextPrompt]_vars

\* C34: the answer to the candidate prompt either starts the download of one
\* of the ranked candidates or fails Resolve: an empty answer takes candidate
\* 1, an integer k with 1 <= k <= number of candidates takes the k-th, and
\* every other answer emits a failed Resolve StepResult, raises with stage
\* Resolve and begins no download.
C34_SelectionInRange ==
  [][\A w \in PoolThreads :
       (pc[w] = "run" /\ wk[w].pl.at = "prompt" /\ wk'[w].pl.at # "prompt") =>
         LET cs == wk[w].pl.candidates
             after == wk'[w].pl
             raw == StripInput(after.raw)
             k == ParseInt(raw)
             taken(i) == /\ after.at = "download"
                         /\ after.download_url = cs[i].url
                         /\ LastIsResolve(wk'[w], TRUE)
         IN
         /\ after.at = "download" => \E i \in 1..Len(cs) : after.download_url = cs[i].url
         /\ raw = "" => taken(1)
         /\ (k # <<>> /\ k[1] >= 1 /\ k[1] <= Len(cs)) => taken(k[1])
         /\ (raw # "" /\ (k = <<>> \/ k[1] < 1 \/ k[1] > Len(cs))) =>
              /\ after.at \in {"raised", "next_entry"}
              /\ LastIsResolve(wk'[w], FALSE)
              /\ "Download" \notin after.entered
              /\ after.download_url = None
              /\ ~after.in_collection => wk'[w].result.stage = "Resolve"]_vars

\* the second of three candidates was chosen by typing " 2 "
C34_Witness ==
  \E w \in PoolThreads :
    /\ wk[w].pl.raw = " 2 "
    /\ wk[w].pl.at = "download"
    /\ Len(wk[w].pl.candidates) = 3
    /\ wk[w].pl.download_url = wk[w].pl.candidates[2].url
    /\ wk[w].pl.download_url # wk[w].pl.candidates[1].url



\* ----- the messages of one item ------------------------------------------------
Terminal == {"done", "error"}
Published(id) == IF id \in DOMAIN npub THEN npub[id] ELSE 0

\* C35: for every item the manager publishes one terminal message, done or
\* error, and it is the last message published for the item: a message about
\* an item is published only while the item is not yet done or error, the
\* item becomes done or error exactly with the publication of the message of
\* that type, and a worker leaves _run only by publishing it.
C35_OneTerminalLast ==
  [][/\ \A id \in DOMAIN npub' :
          npub'[id] # Published(id) =>
            /\ npub'[id] = Published(id) + 1
            /\ id \in DOMAIN items'
            /\ id \in DOMAIN items => items[id].status \notin Terminal
            /\ \E th \in Threads :
                 /\ pc[th] # "publish" /\ pc'[th] = "publish"
                 /\ pmsg'[th].id = id
                 /\ pmsg'[th].n = npub'[id]
                 /\ pmsg'[th].type \in Terminal <=> items'[id].status \in Terminal
                 /\ pmsg'[th].type \in Terminal => pmsg'[th].type = items'[id].status
     /\ \A id \in DOMAIN items :
          (items[id].status \notin Terminal /\ items'[id].status \in Terminal) =>
            npub'[id] = Published(id) + 1
     /\ \A w \in PoolThreads :
          (wk[w].item_id # <<>> /\ wk'[w].item_id # wk[w].item_id) =>
            /\ pc'[w] = "publish"
            /\ pmsg'[w].type \in Terminal
            /\ pmsg'[w].id = wk[w].item_id
            /\ pmsg'[w].n = npub'[wk[w].item_id]]_vars

\* an observer has read the error message of an item as the fourth and last
\* of its messages, and the worker is free again
C35_Witness ==
  \E id \in DOMAIN items, s \in Subscribers :
    /\ items[id].status = "error"
    /\ npub[id] = 4
    /\ id \in DOMAIN lastGot[s]
    /\ lastGot[s][id] = 4
    /\ \A w \in PoolThreads : wk[w].item_id # id /\ pc[w] = "idle"



\* what snapshot() shows of an item once message m about it is out: all of
\* the change when m is the latest message about the item, and the part of
\* it that later changes keep otherwise
Reflects(item, m, latest) ==
  /\ m.type \in Terminal => item.status = m.type
  /\ m.type = "error" => item.error = m.label
  /\ m.type \in {"status", "meta"} => item.status # "queued"
  /\ m.type = "meta" => item.title # None
  /\ m.type = "step" => m.label \in DOMAIN item.steps
  /\ m.type = "progress" => item.progress # None
  /\ latest =>
       /\ m.type = "queued" => item.status = "queued"
       /\ m.type = "status" => item.current = m.label
       /\ m.type = "meta" => item.title = m.label /\ item.status = "running"
       /\ m.type = "progress" => item.progress = m.label

\* the messages some subscriber holds in its queue or has read last
Delivered ==
  UNION { {queues[s][i] : i \in 1..Len(queues[s])} : s \in Subscribers }
  \cup { pmsg[th] : th \in { t \in Threads :
           \E s \in Subscribers :
             /\ pmsg[t].id \in DOMAIN lastGot[s]
             /\ lastGot[s][pmsg[t].id] = pmsg[t].n } }

\* C36: the ItemState is updated before the message about the update is
\* published: whatever message about an item a subscriber holds or has read,
\* the item is in snapshot() and already shows that change, or a later one.
C36_UpdateBeforePublish ==
  /\ \A s \in Subscribers : DOMAIN lastGot[s] \subseteq DOMAIN items
  /\ \A m \in Delivered :
       /\ m.id \in DOMAIN items
       /\ Reflects(items[m.id], m, npub[m.id] = m.n)

\* an observer has read the done message of an item while a second item is
\* still queued and its queued message waits in the observer's queue
C36_Witness ==
  \E s \in Subscribers, id \in DOMAIN items, th \in Threads :
    /\ pmsg[th].type = "done"
    /\ pmsg[th].id = id
    /\ id \in DOMAIN lastGot[s]
    /\ lastGot[s][id] = pmsg[th].n
    /\ items[id].status = "done"
    /\ \E i \in 1..Len(queues[s]) : queues[s][i].id # id



\* ----- the web host with its scheduling ----------------------------------------
\* a pool thread that can take a step takes it: it picks up queued work,
\* finishes a publish it has begun, and its run_download call returns or
\* raises in the end
Fairness ==
  \A w \in PoolThreads :
    /\ WF_vars(RunStart(w))
    /\ WF_vars(RecordStatus(w))
    /\ WF_vars(PublishSnapshot(w))
    /\ WF_vars(PublishPut(w))
    /\ WF_vars(\E res \in SampleResults : PipelineEnd(w, res))

SpecLive == InitShutdown /\ [][NextShutdown]_vars /\ Fairness

ItemIds == {Str(i) : i \in 1..MaxItems}

\* the executor holds the item: queued in it, or inside _run
Submitted(id) == InWork(id) # {} \/ \E w \in PoolThreads : wk[w].item_id = id

Ended(id) == id \in DOMAIN items /\ items[id].status \in Terminal

\* C37: every item the executor accepted, that is every item enqueued before
\* shutdown(), ends as done or error, whether or not shutdown() is called
\* while it is queued or running and whether its run_download call returns
\* or raises.
C37_EventuallyTerminal == \A id \in ItemIds : Submitted(id) ~> Ended(id)

\* shutdown() has been called with one item inside _run and another still
\* queued in the executor
C37_Witness ==
  /\ closed
  /\ work # <<>>
  /\ \E w \in PoolThreads : wk[w].item_id # <<>> /\ items[wk[w].item_id].status = "running"



\* C38: once unsubscribe(q) has returned no message is put into q any more,
\* whatever publish calls run at the same time; and a message is put into a
\* queue only by a publish call whose snapshot of the subscribers was taken
\* while the queue was subscribed.
C38_NoPutAfterUnsubscribe ==
  [][\A s \in Subscribers :
       /\ sse[s] = "closed" => queues'[s] = queues[s]
       /\ Len(queues'[s]) > Len(queues[s]) =>
            \E th \in Threads : pc[th] = "put" /\ s \in ptargets[th]]_vars


\* the worker is in the loop of _run_collection, or past it
InLoop(w) ==
  /\ pc[w] = "run"
  /\ IsCollection(wk[w].pl.item)
  /\ wk[w].pl.item.entries # <<>>
  /\ wk[w].pl.at \notin {"off", "begin", "metadata", "collection"}

\* the positions in item.entries of the urls of a list, in the list's order
Positions(entries, urls) ==
  [i \in 1..Len(urls) |->
     CHOOSE k \in 0..Len(entries) :
       \/ k > 0 /\ entries[k].url = urls[i]
       \/ k = 0 /\ \A j \in 1..Len(entries) : entries[j].url # urls[i]]

\* the loop has taken the first n entries, in order, and each of them but the
\* one in hand has exactly one outcome
AttemptedInOrder(w) ==
  LET pl == wk[w].pl
      entries == pl.item.entries
      N == Len(entries)
      n == N - Len(pl.todo)
      busy == pl.at \notin {"next_entry", "returned"}
      done == IF busy THEN n - 1 ELSE n
      saved == Positions(entries, pl.saved)
      failed == Positions(entries, [i \in 1..Len(pl.failures) |-> pl.failures[i].url])
  IN
  /\ n \in 0..N
  /\ pl.todo = SubSeq(entries, n + 1, N)
  /\ busy => (n >= 1 /\ pl.cur.url = entries[n].url)
  /\ pl.at = "returned" => n = N
  /\ Increasing(saved) /\ Increasing(failed)
  /\ Range(saved) \cap Range(failed) = {}
  /\ Range(saved) \cup Range(failed) = 1..done

\* C39: in a collection run every sub-item is attempted exactly once, in
\* entry order: the loop takes the entries one by one from the front, each
\* entry taken ends in exactly one of `saved` and `failures`, the run ends
\* only when none is left, and a step of the run, a failing sub-item
\* included, only ever appends to `saved`.
C39_EveryEntryOnce ==
  [][\A w \in PoolThreads :
       /\ InLoop(w)' => AttemptedInOrder(w)'
       /\ (InLoop(w) /\ InLoop(w)') =>
            /\ Len(wk[w].pl.saved) <= Len(wk'[w].pl.saved)
            /\ SubSeq(wk'[w].pl.saved, 1, Len(wk[w].pl.saved)) = wk[w].pl.saved
            /\ Len(wk'[w].pl.todo) \in {Len(wk[w].pl.todo), Len(wk[w].pl.todo) - 1}]_vars

\* the first sub-item of two failed after the loop had saved nothing, and the
\* second was attempted and saved
C39_Witness ==
  \E w \in PoolThreads :
    /\ InLoop(w)
    /\ wk[w].pl.at = "returned"
    /\ Len(wk[w].pl.item.entries) = 2
    /\ Len(wk[w].pl.failures) = 1
    /\ wk[w].pl.failures[1].url = wk[w].pl.item.entries[1].url
    /\ wk[w].pl.saved = <<wk[w].pl.item.entries[2].url>>


\* ----- cli._download_many ----------------------------------------------------
MaxBatch == 3

\* what run_download does for one URL of the batch: returns its paths, raises
\* PartialSuccessError with the saved paths and the failures of the sub-items,
\* raises a RipmediaError with its stage (spotify.py gives "Detected" to an
\* unrecognised URL), or raises another exception (the RuntimeError of
\* ensure_unique_path)
Outcomes ==
  { [NoResult EXCEPT !.kind = "ok", !.paths = <<"a.mp3">>],
    [NoResult EXCEPT !.kind = "partial", !.message = "items failed",
                     !.stage = "Downloading", !.paths = <<"b.mp3">>,
                     !.failures = <<[url |-> "entry", message |-> "yt-dlp failed",
                                     stage |-> "Downloading"]>>],
    Error("Unrecognized Spotify URL.", "Detected"),
    Error("Failed to fetch metadata", "Metadata"),
    Error("yt-dlp failed", "Downloading"),
    [NoResult EXCEPT !.kind = "exception", !.message = "Could not find available filename"] }

\* the locals of _download_many; `exit` is the status the process ends with
NoBatch ==
  [urls |-> <<>>, idx |-> 0, successes |-> <<>>, failures |-> <<>>,
   level |-> "normal", exit |-> <<>>]

\* as Account, with the failures of a PartialSuccessError left out
AccountSavedOnly(frame, url, outcome) ==
  IF outcome.kind \in {"ok", "partial"}
    THEN [frame EXCEPT !.successes = @ \o outcome.paths]
  ELSE [frame EXCEPT !.failures = Append(@, [url |-> url, message |-> outcome.message,
                                            stage |-> outcome.stage])]

\* the try statement around run_download: successes.extend(paths), or one of
\* the three except clauses
Account(frame, url, outcome) ==
  IF outcome.kind = "ok"
    THEN [frame EXCEPT !.successes = @ \o outcome.paths]
  ELSE IF outcome.kind = "partial"
    THEN [frame EXCEPT !.successes = @ \o outcome.paths,
                       !.failures = @ \o outcome.failures]
  ELSE IF outcome.kind = "error"
    THEN [frame EXCEPT !.failures = Append(@, [url |-> url, message |-> outcome.message,
                                              stage |-> outcome.stage])]
  ELSE [frame EXCEPT !.failures = Append(@, [url |-> url, message |-> outcome.message,
                                            stage |-> None])]

\* the tail of _download_many: typer.Exit(2 if all_invalid else 1),
\* typer.Exit(1), or the return
ExitStatus(successes, failures) ==
  IF failures # <<>> /\ successes = <<>>
    THEN IF \A i \in 1..Len(failures) : failures[i].stage = "Detected" THEN 2 ELSE 1
  ELSE IF failures # <<>> THEN 1
  ELSE 0

\* the status of a process that ends in an exception nobody caught
UncaughtExit == 1

\* one turn of `for idx, url in enumerate(urls, start=1)`; at level "debug"
\* the last except clause raises again and the exception leaves the process
DownloadOne(t) ==
  LET frame == rq[t]
      outcome == frame.urls[frame.idx + 1]
      next == Account([frame EXCEPT !.idx = @ + 1], frame.idx + 1, outcome)
  IN
  /\ pc[t] = "download_many"
  /\ frame.idx < Len(frame.urls)
  /\ IF outcome.kind = "exception" /\ frame.level = "debug"
       THEN /\ rq' = [rq EXCEPT ![t] = [next EXCEPT !.exit = <<UncaughtExit>>]]
            /\ pc' = [pc EXCEPT ![t] = "exited"]
       ELSE /\ rq' = [rq EXCEPT ![t] = next]
            /\ pc' = pc
  /\ UNCHANGED <<parallel, env, files, closed, id_counter, items, work, subscribers,
                 queues, pmsg, ptargets, pret, wk, sse, lastGot, npub, emptyPub>>

\* after the loop
DownloadManyExit(t) ==
  LET frame == rq[t] IN
  /\ pc[t] = "download_many"
  /\ frame.idx = Len(frame.urls)
  /\ rq' = [rq EXCEPT ![t].exit = <<ExitStatus(frame.successes, frame.failures)>>]
  /\ pc' = [pc EXCEPT ![t] = "exited"]
  /\ UNCHANGED <<parallel, env, files, closed, id_counter, items, work, subscribers,
                 queues, pmsg, ptargets, pret, wk, sse, lastGot, npub, emptyPub>>

Batches == UNION { [1..n -> Outcomes] : n \in 1..MaxBatch }

\* the main thread enters _download_many with a batch of one to MaxBatch URLs
InitExit ==
  \E urls \in Batches, level \in {"normal", "debug"} :
    /\ parallel = 1
    /\ env = [parallel |-> 1, requests |-> {"r1"}, observers |-> {}, urls |-> 0,
              callbacks |-> 0, interactive |-> FALSE, entries |-> 0, hooks |-> 0]
    /\ files = <<>>
    /\ closed = FALSE
    /\ id_counter = 1
    /\ items = [k \in {} |-> None]
    /\ work = <<>>
    /\ subscribers = {}
    /\ queues = [s \in Subscribers |-> <<>>]
    /\ pc = [t \in Threads |-> IF t = <<"request", "r1">> THEN "download_many" ELSE "idle"]
    /\ pmsg = [t \in Threads |-> NoMessage]
    /\ ptargets = [t \in Threads |-> {}]
    /\ pret = [t \in Threads |-> None]
    /\ rq = [t \in ReqThreads |->
               IF t = <<"request", "r1">>
                 THEN [NoBatch EXCEPT !.urls = urls, !.level = level]
                 ELSE NoRequest]
    /\ wk = [w \in PoolThreads |-> NoWork]
    /\ sse = [s \in Subscribers |-> "idle"]
    /\ lastGot = [s \in Subscribers |-> [k \in {} |-> 0]]
    /\ npub = [k \in {} |-> 0]
    /\ emptyPub = FALSE

NextExit ==
  \/ \E t \in ReqThreads : DownloadOne(t)
  \/ \E t \in ReqThreads : DownloadManyExit(t)

SpecExit == InitExit /\ [][NextExit]_vars

\* the outcomes of the URLs the batch got to
Attempted(t) == SubSeq(rq[t].urls, 1, rq[t].idx)

\* the stages of every failure among these outcomes, those a
\* PartialSuccessError carries included
FailureStages(outcomes) ==
  UNION { IF outcomes[i].kind = "partial"
            THEN {outcomes[i].failures[j].stage : j \in 1..Len(outcomes[i].failures)}
          ELSE IF outcomes[i].kind = "ok" THEN {}
          ELSE {outcomes[i].stage} : i \in 1..Len(outcomes) }

\* C40: the status _download_many ends the process with depends on the
\* outcomes of the URLs only: 0 when no URL failed; 1 when one failed and a
\* path was saved, the paths and failures of a PartialSuccessError counted;
\* with a failure and nothing saved, 2 when every failure has stage
\* "Detected" and 1 otherwise.
C40_ExitStatus ==
  \A t \in ReqThreads :
    pc[t] = "exited" =>
      LET outcomes == Attempted(t)
          failed == \E i \in 1..Len(outcomes) : outcomes[i].kind # "ok"
          saved == \E i \in 1..Len(outcomes) : outcomes[i].paths # <<>>
      IN
      rq[t].exit = << IF ~failed THEN 0
                      ELSE IF saved THEN 1
                      ELSE IF FailureStages(outcomes) = {"Detected"} THEN 2
                      ELSE 1 >>

\* a batch of an unrecognised URL and a partly saved collection ended with
\* status 1
C40_Witness ==
  \E t \in ReqThreads :
    /\ pc[t] = "exited"
    /\ rq[t].exit = <<1>>
    /\ Len(rq[t].urls) = 2 /\ rq[t].idx = 2
    /\ rq[t].urls[1].stage = "Detected"
    /\ rq[t].urls[2].kind = "partial"
    /\ rq[t].successes = <<"b.mp3">>
    /\ Len(rq[t].failures) = 2
====
